---- MODULE Spec2Model ----
(***************************************************************************)
(* Model of the customer-support chatbot (ignsagita/chatbot-multi-agents): *)
(* input validation and rule classification (utils/validators.py), the    *)
(* agents' completion adapter and response cache (agents/base_agent.py),  *)
(* the triage agent (agents/triage_agent.py), the refund handler          *)
(* (agents/refund_agent.py), the session tables (utils/database.py) and   *)
(* the turn pipeline (app.py).                                            *)
(*                                                                        *)
(* A Python str is a sequence of one-character strings, so that `in`,     *)
(* split, strip, lower/upper and the regular expressions are computed     *)
(* character by character, as the code computes them.  None is the empty  *)
(* sequence: the code only ever tests these values for truthiness.        *)
(***************************************************************************)
EXTENDS Integers, Sequences, FiniteSets, TLC

(***************************************************************************)
(* Python str operations                                                   *)
(***************************************************************************)
None == <<>>

Digits == {"0","1","2","3","4","5","6","7","8","9"}

Whitespace == {" ", "\n", "\t"}

\* the lower-case letter of each upper-case letter
LowerOf ==
   ("A" :> "a") @@ ("B" :> "b") @@ ("C" :> "c") @@ ("D" :> "d") @@ ("E" :> "e") @@ ("F" :> "f") @@
   ("G" :> "g") @@ ("H" :> "h") @@ ("I" :> "i") @@ ("J" :> "j") @@ ("K" :> "k") @@ ("L" :> "l") @@
   ("M" :> "m") @@ ("N" :> "n") @@ ("O" :> "o") @@ ("P" :> "p") @@ ("Q" :> "q") @@ ("R" :> "r") @@
   ("S" :> "s") @@ ("T" :> "t") @@ ("U" :> "u") @@ ("V" :> "v") @@ ("W" :> "w") @@ ("X" :> "x") @@
   ("Y" :> "y") @@ ("Z" :> "z")

\* the upper-case letter of each lower-case letter
UpperOf ==
   ("a" :> "A") @@ ("b" :> "B") @@ ("c" :> "C") @@ ("d" :> "D") @@ ("e" :> "E") @@ ("f" :> "F") @@
   ("g" :> "G") @@ ("h" :> "H") @@ ("i" :> "I") @@ ("j" :> "J") @@ ("k" :> "K") @@ ("l" :> "L") @@
   ("m" :> "M") @@ ("n" :> "N") @@ ("o" :> "O") @@ ("p" :> "P") @@ ("q" :> "Q") @@ ("r" :> "R") @@
   ("s" :> "S") @@ ("t" :> "T") @@ ("u" :> "U") @@ ("v" :> "V") @@ ("w" :> "W") @@ ("x" :> "X") @@
   ("y" :> "Y") @@ ("z" :> "Z")

\* str.lower() on one character
LowerChar(c) == IF c \in DOMAIN LowerOf THEN LowerOf[c] ELSE c

\* str.upper() on one character
UpperChar(c) == IF c \in DOMAIN UpperOf THEN UpperOf[c] ELSE c

\* str.lower()
lower(s) == SubSeq([i \in 1..Len(s) |-> LowerChar(s[i])], 1, Len(s))

\* str.upper()
upper(s) == SubSeq([i \in 1..Len(s) |-> UpperChar(s[i])], 1, Len(s))

\* whether k occurs in t at position i
OccursAt(k, t, i) ==
   t[i] = k[1] /\ SubSeq(t, i, i + Len(k) - 1) = k

\* the positions at which k occurs in t
Occurrences(k, t) ==
   {i \in 1..(Len(t) - Len(k) + 1) : OccursAt(k, t, i)}

\* Python's `k in t`
Contains(k, t) == \E i \in 1..(Len(t) - Len(k) + 1) : OccursAt(k, t, i)

Min(S) == CHOOSE x \in S : \A y \in S : x <= y

\* str.find: the first position of k in t (0 when absent)
Find(k, t) ==
   LET found == Occurrences(k, t)
   IN  IF found = {} THEN 0 ELSE Min(found)

RECURSIVE lstrip(_)
\* str.lstrip()
lstrip(s) ==
   IF s # <<>> /\ Head(s) \in Whitespace THEN lstrip(Tail(s)) ELSE s

RECURSIVE rstrip(_)
\* str.rstrip()
rstrip(s) ==
   IF s # <<>> /\ s[Len(s)] \in Whitespace
   THEN rstrip(SubSeq(s, 1, Len(s) - 1))
   ELSE s

\* str.strip()
strip(s) == rstrip(lstrip(s))

\* t.split(k, 1): the text before and after the first occurrence of k
\* (the whole text alone when k does not occur)
split_once(t, k) ==
   LET at == Find(k, t)
   IN  IF at = 0 THEN << t >>
       ELSE << SubSeq(t, 1, at - 1), SubSeq(t, at + Len(k), Len(t)) >>

RECURSIVE split_on(_, _)
\* t.split(c) for a one-character separator c
split_on(t, c) ==
   LET at == Find(<<c>>, t)
   IN  IF at = 0 THEN << t >>
       ELSE <<SubSeq(t, 1, at - 1)>> \o split_on(SubSeq(t, at + 1, Len(t)), c)

RECURSIVE split_ws(_)
\* t.split(): the maximal runs of non-whitespace characters
split_ws(t) ==
   LET s == strip(t)
       ws == {i \in 1..Len(s) : s[i] \in Whitespace}
   IN  IF s = <<>> THEN <<>>
       ELSE IF ws = {} THEN << s >>
       ELSE <<SubSeq(s, 1, Min(ws) - 1)>> \o split_ws(SubSeq(s, Min(ws), Len(s)))

RECURSIVE join(_, _)
\* sep.join(parts)
join(sep, parts) ==
   IF parts = <<>> THEN <<>>
   ELSE IF Len(parts) = 1 THEN parts[1]
   ELSE parts[1] \o sep \o join(sep, Tail(parts))

\* re.sub(r'[chars]', '', s)
remove_chars(s, chars) == SelectSeq(s, LAMBDA c : c \notin chars)

\* sum(1 for keyword in keywords if keyword in text)
count_in(keywords, text) ==
   Cardinality({i \in 1..Len(keywords) : Contains(keywords[i], text)})

\* any(keyword in text for keyword in keywords)
any_in(keywords, text) ==
   \E i \in 1..Len(keywords) : Contains(keywords[i], text)

\* re.search(prefix + r'\d{n}', t).group(), None when nothing matches
search_prefix_digits(prefix, n, t) ==
   LET L == Len(prefix) + n
       hits == {i \in 1..(Len(t) - L + 1) :
                  /\ OccursAt(prefix, t, i)
                  /\ \A j \in (i + Len(prefix))..(i + L - 1) : t[j] \in Digits}
   IN  IF hits = {} THEN None ELSE SubSeq(t, Min(hits), Min(hits) + L - 1)

(***************************************************************************)
(* Intent categories: a category is a str, compared with the text the     *)
(* completion reply carries.                                               *)
(***************************************************************************)
cat_refund == <<"r","e","f","u","n","d">>

cat_faq == <<"f","a","q">>

cat_partnership == <<"p","a","r","t","n","e","r","s","h","i","p">>

cat_other == <<"o","t","h","e","r">>

cat_general == <<"g","e","n","e","r","a","l">>

cat_error == <<"e","r","r","o","r">>


(***************************************************************************)
(* utils/validators.py: InputValidator                                     *)
(***************************************************************************)
MinQueryLen == 3

MaxQueryLen == 1000

MinReasonLen == 10

MaxReasonLen == 500

\* validate_query_input(query) -> (is_valid, error_msg)
validate_query_input(query) ==
   IF query = <<>> \/ Len(strip(query)) < MinQueryLen
   THEN [is_valid |-> FALSE,
         error_msg |-> "Please provide a more detailed question (at least 3 characters)."]
   ELSE IF Len(query) > MaxQueryLen
   THEN [is_valid |-> FALSE,
         error_msg |-> "Query is too long (maximum 1000 characters)."]
   ELSE [is_valid |-> TRUE, error_msg |-> ""]

\* validate_refund_reason accepting every reason
validate_refund_reason_accepting(reason) ==
   [is_valid |-> TRUE, error_msg |-> ""]

\* validate_refund_reason(reason) -> (is_valid, error_msg)
validate_refund_reason(reason) ==
   IF reason = <<>> \/ Len(strip(reason)) < MinReasonLen
   THEN [is_valid |-> FALSE,
         error_msg |-> "Please provide a detailed reason (at least 10 characters)."]
   ELSE IF Len(reason) > MaxReasonLen
   THEN [is_valid |-> FALSE,
         error_msg |-> "Reason is too long (maximum 500 characters)."]
   ELSE [is_valid |-> TRUE, error_msg |-> ""]

\* sanitize_input(text): collapse whitespace, then drop < > " '
sanitize_input(text) ==
   IF text = <<>> THEN <<>>
   ELSE remove_chars(join(<<" ">>, split_ws(strip(text))), {"<", ">", "\"", "'"})

\* extract_transaction_info(text): the first INV#### and the first CUST###
\* of the upper-cased text
extract_transaction_info(text) ==
   [invoice_no  |-> search_prefix_digits(<<"I","N","V">>, 4, upper(text)),
    customer_id |-> search_prefix_digits(<<"C","U","S","T">>, 3, upper(text))]

refund_keywords ==
   << <<"r","e","f","u","n","d">>,
      <<"r","e","t","u","r","n">>,
      <<"m","o","n","e","y"," ","b","a","c","k">>,
      <<"c","a","n","c","e","l"," ","o","r","d","e","r">>,
      <<"i","n","v","o","i","c","e">>,
      <<"i","n","v">>,
      <<"r","e","c","e","i","p","t">>,
      <<"t","r","a","n","s","a","c","t","i","o","n">> >>

faq_keywords ==
   << <<"p","r","o","d","u","c","t">>,
      <<"s","p","e","c","i","f","i","c","a","t","i","o","n">>,
      <<"s","p","e","c","s">>,
      <<"d","i","m","e","n","s","i","o","n">>,
      <<"f","e","a","t","u","r","e">>,
      <<"h","o","w"," ","t","o">>,
      <<"c","o","m","p","a","t","i","b","l","e">>,
      <<"w","a","r","r","a","n","t","y">>,
      <<"s","h","i","p","p","i","n","g">>,
      <<"p","a","y","m","e","n","t">>,
      <<"p","o","l","i","c","y">> >>

partnership_keywords ==
   << <<"p","a","r","t","n","e","r","s","h","i","p">>,
      <<"b","u","s","i","n","e","s","s">>,
      <<"w","h","o","l","e","s","a","l","e">>,
      <<"b","u","l","k">>,
      <<"d","i","s","t","r","i","b","u","t","o","r">>,
      <<"r","e","s","e","l","l","e","r">>,
      <<"c","o","l","l","a","b","o","r","a","t","e">> >>

refund_score(query) == count_in(refund_keywords, lower(query))

faq_score(query) == count_in(faq_keywords, lower(query))

partnership_score(query) == count_in(partnership_keywords, lower(query))

\* the final if/elif chain of classify_query_intent, on the three scores
intent_of_scores(r, f, p) ==
   IF r > f /\ r > p THEN cat_refund
   ELSE IF p > f /\ p > r THEN cat_partnership
   ELSE IF f > 0 THEN cat_faq
   ELSE cat_other

\* classify_query_intent(query)
classify_query_intent(query) ==
   intent_of_scores(refund_score(query), faq_score(query), partnership_score(query))

\* is_complete_refund_request(query)
is_complete_refund_request(query) ==
   /\ extract_transaction_info(query).invoice_no # None
   /\ extract_transaction_info(query).customer_id # None

(***************************************************************************)
(* Python values: a dict is a function on its keys (a record); a value     *)
(* that may be a str or a number carries its type, as isinstance reads it. *)
(* A confidence number is held in tenths (0.6 is 6).                       *)
(***************************************************************************)
\* d.get(k, default)
Get(d, k, default) == IF k \in DOMAIN d THEN d[k] ELSE default

Str(s) == [t |-> "str", v |-> s]

Num(n) == [t |-> "float", v |-> n]

\* d | {k: v}
Put(d, k, v) == [x \in (DOMAIN d) \cup {k} |-> IF x = k THEN v ELSE d[x]]

(***************************************************************************)
(* config.py                                                               *)
(***************************************************************************)
MAX_QUERIES_PER_SESSION == 30

CACHE_TTL == 300

MAX_CACHE_SIZE == 100

(***************************************************************************)
(* agents/base_agent.py: BaseAgent.  self.cache is a dict, held here as    *)
(* the sequence of its items in insertion order (the order min() and the   *)
(* dict iterate in); md5 is taken to be collision-free, so a cache key is  *)
(* the pair (system prompt, user input) it fingerprints.                   *)
(***************************************************************************)

api_key_error_text ==
   <<"E","r","r","o","r",":"," ","O","p","e","n","A","I"," ","A","P","I"," ","k","e","y"," ","n","o","t"," ","c","o","n","f","i","g","u","r","e","d",".">>

technical_difficulties_text ==
   <<"I"," ","a","p","o","l","o","g","i","z","e",","," ","b","u","t"," ","I","'","m"," ","e","x","p","e","r","i","e","n","c","i","n","g"," ","t","e","c","h","n","i","c","a","l"," ","d","i","f","f","i","c","u","l","t","i","e","s","."," ","P","l","e","a","s","e"," ","t","r","y"," ","a","g","a","i","n"," ","l","a","t","e","r",".">>

high == <<"h","i","g","h">>

medium == <<"m","e","d","i","u","m">>

low == <<"l","o","w">>

\* a lone surrogate code point, as one character of a str
lone_surrogate == "\\ud800"

\* text.encode() returns: no character of the text is a lone surrogate
encodable(text) == \A i \in 1..Len(text) : text[i] # lone_surrogate

\* _generate_cache_key raises UnicodeEncodeError (cache_input.encode()) when
\* the text formatted into the cache input cannot be encoded;
\* process_with_cache passes the exception on to the agent that called it
cache_key_raises(text) == ~encodable(text)

\* _generate_cache_key
generate_cache_key(system_prompt, user_input) ==
   [system_prompt |-> system_prompt, user_input |-> user_input]

CacheKeys(cache) == {cache[i].key : i \in 1..Len(cache)}

CacheIndex(cache, cache_key) == CHOOSE i \in 1..Len(cache) : cache[i].key = cache_key

CacheDelete(cache, cache_key) == SelectSeq(cache, LAMBDA e : e.key # cache_key)

\* self.cache[cache_key] = (cached_time, response): an existing key keeps
\* its place in the dict, a new key goes last
CacheStore(cache, cache_key, cached_time, response) ==
   LET item == [key |-> cache_key, cached_time |-> cached_time, response |-> response]
   IN  IF cache_key \in CacheKeys(cache)
       THEN [i \in 1..Len(cache) |-> IF cache[i].key = cache_key THEN item ELSE cache[i]]
       ELSE Append(cache, item)

\* _get_cached_response refreshing the cached time of an entry it returns
get_cached_response_refreshing(cache, cache_key, now) ==
   IF cache_key \in CacheKeys(cache)
   THEN IF now - cache[CacheIndex(cache, cache_key)].cached_time < CACHE_TTL
        THEN [response |-> cache[CacheIndex(cache, cache_key)].response,
              cache |-> [cache EXCEPT ![CacheIndex(cache, cache_key)].cached_time = now]]
        ELSE [response |-> None, cache |-> CacheDelete(cache, cache_key)]
   ELSE [response |-> None, cache |-> cache]

\* _get_cached_response: the response returned (None on a miss) and the
\* cache afterwards (an expired entry is deleted)
get_cached_response(cache, cache_key, now) ==
   IF cache_key \in CacheKeys(cache)
   THEN IF now - cache[CacheIndex(cache, cache_key)].cached_time < CACHE_TTL
        THEN [response |-> cache[CacheIndex(cache, cache_key)].response, cache |-> cache]
        ELSE [response |-> None, cache |-> CacheDelete(cache, cache_key)]
   ELSE [response |-> None, cache |-> cache]

\* min(self.cache.keys(), key=lambda k: self.cache[k][0]): the first key, in
\* dict order, among those with the least cached time
oldest_key(cache) ==
   cache[Min({i \in 1..Len(cache) :
                \A j \in 1..Len(cache) : cache[i].cached_time <= cache[j].cached_time})].key

\* _cache_response evicting only above MAX_CACHE_SIZE entries
cache_response_evicts_late(cache, cache_key, response, now) ==
   IF Len(cache) > MAX_CACHE_SIZE
   THEN CacheStore(CacheDelete(cache, oldest_key(cache)), cache_key, now, response)
   ELSE CacheStore(cache, cache_key, now, response)

\* _cache_response
cache_response(cache, cache_key, response, now) ==
   IF Len(cache) >= MAX_CACHE_SIZE
   THEN CacheStore(CacheDelete(cache, oldest_key(cache)), cache_key, now, response)
   ELSE CacheStore(cache, cache_key, now, response)

\* _call_openai_api letting a failed call pass for a classification
call_openai_api_failure_classifies(has_client, api) ==
   IF ~has_client THEN api_key_error_text
   ELSE IF api.raises THEN <<"c","a","t","e","g","o","r","y",":">> \o cat_other
   ELSE strip(api.content)

\* _call_openai_api: api is what the completion call does this time, either
\* [raises |-> TRUE] or [raises |-> FALSE, content |-> the reply's text]
call_openai_api(has_client, api) ==
   IF ~has_client THEN api_key_error_text
   ELSE IF api.raises THEN technical_difficulties_text
   ELSE strip(api.content)

\* _normalize_confidence
normalize_confidence(confidence) ==
   IF confidence.t = "str"
   THEN CASE lower(confidence.v) = high   -> 8
          [] lower(confidence.v) = medium -> 6
          [] lower(confidence.v) = low    -> 4
          [] OTHER                        -> 5
   ELSE IF confidence.t = "float" THEN confidence.v
   ELSE 5

\* process_with_cache answering from an entry of any age
process_with_cache_returning_expired(cache, now, has_client, user_input, system_prompt, api) ==
   LET cache_key == generate_cache_key(system_prompt, user_input)
       response == call_openai_api(has_client, api)
   IN  IF /\ cache_key \in CacheKeys(cache)
          /\ cache[CacheIndex(cache, cache_key)].response # None
       THEN [response |-> cache[CacheIndex(cache, cache_key)].response,
             cache |-> cache, called |-> FALSE]
       ELSE [response |-> response,
             cache |-> cache_response(cache, cache_key, response, now),
             called |-> TRUE]

\* process_with_cache: the response returned, the cache afterwards, and
\* whether the completion capability was called
process_with_cache(cache, now, has_client, user_input, system_prompt, api) ==
   LET cache_key == generate_cache_key(system_prompt, user_input)
       cached == get_cached_response(cache, cache_key, now)
       response == call_openai_api(has_client, api)
   IN  IF cached.response # None
       THEN [response |-> cached.response, cache |-> cached.cache, called |-> FALSE]
       ELSE [response |-> response,
             cache |-> cache_response(cached.cache, cache_key, response, now),
             called |-> TRUE]

(***************************************************************************)
(* Response values: a response text is a message template and the values  *)
(* formatted into it.                                                      *)
(***************************************************************************)
Msg(m) == [msg |-> m, args |-> <<>>]

Fmt(m, args) == [msg |-> m, args |-> args]

\* AgentResponse(...), utils/response_schema.py, with the dataclass defaults
AgentResponse(response, resolved, category, confidence, needs_followup, needs_more_info, metadata) ==
   [obj |-> "AgentResponse", response |-> response, resolved |-> resolved,
    category |-> category, confidence |-> confidence,
    needs_followup |-> needs_followup, needs_more_info |-> needs_more_info,
    metadata |-> metadata]

DefaultConfidence == Num(5)

EmptyDict == [x \in {} |-> {}]

\* AgentResponse.to_dict()
to_dict(r) ==
   [response |-> r.response, resolved |-> r.resolved, category |-> r.category,
    confidence |-> r.confidence, needs_followup |-> r.needs_followup,
    needs_more_info |-> r.needs_more_info, metadata |-> r.metadata]

(***************************************************************************)
(* agents/triage_agent.py: TriageAgent                                     *)
(***************************************************************************)

key_category == <<"c","a","t","e","g","o","r","y">>

key_confidence == <<"c","o","n","f","i","d","e","n","c","e">>

key_reasoning == <<"r","e","a","s","o","n","i","n","g">>

key_next_action == <<"n","e","x","t"," ","a","c","t","i","o","n">>

rule_based_reasoning ==
   <<"R","u","l","e","-","b","a","s","e","d"," ","c","l","a","s","s","i","f","i","c","a","t","i","o","n"," ","(","A","P","I"," ","n","o","t"," ","a","v","a","i","l","a","b","l","e",")">>

validate_refund_keywords ==
   << <<"r","e","f","u","n","d">>,
      <<"r","e","t","u","r","n">>,
      <<"m","o","n","e","y"," ","b","a","c","k">>,
      <<"c","a","n","c","e","l">>,
      <<"i","n","v","o","i","c","e">> >>

\* one pass of the loop of _parse_ai_response: result after reading line
parse_line(result, line) ==
   IF ~Contains(<<":">>, line) THEN result
   ELSE LET parts == split_once(line, <<":">>)
            key == lower(strip(parts[1]))
            value == strip(parts[2])
        IN  CASE key = key_category    -> Put(result, "category", lower(value))
              [] key = key_confidence  -> Put(result, "confidence", lower(value))
              [] key = key_reasoning   -> Put(result, "reasoning", value)
              [] key = key_next_action -> Put(result, "next_action", value)
              [] OTHER                 -> result

RECURSIVE parse_lines(_, _)
parse_lines(result, lines) ==
   IF lines = <<>> THEN result
   ELSE parse_lines(parse_line(result, Head(lines)), Tail(lines))

\* _parse_ai_response
parse_ai_response(ai_response) ==
   parse_lines(EmptyDict, split_on(ai_response, "\n"))

\* valid_categories without partnership
valid_categories_without_partnership == {cat_refund, cat_faq, cat_other}

\* valid_categories of _validate_classification
valid_categories == {cat_refund, cat_faq, cat_partnership, cat_other}

\* _validate_classification without the refund override
validate_classification_no_override(ai_category, rule_category, user_input) ==
   IF ai_category \notin valid_categories THEN rule_category ELSE ai_category

\* _validate_classification
validate_classification(ai_category, rule_category, user_input) ==
   IF ai_category \notin valid_categories THEN rule_category
   ELSE IF /\ rule_category = cat_refund
           /\ ai_category # cat_refund
           /\ any_in(validate_refund_keywords, lower(user_input))
   THEN cat_refund
   ELSE ai_category

\* _build_response
build_response(category, user_input, parsed_result, has_complete_refund_info) ==
   IF category = cat_refund
   THEN IF has_complete_refund_info
        THEN AgentResponse(
               Msg("I can help you with your refund request..."),
               FALSE, cat_refund,
               Num(normalize_confidence(Str(Get(parsed_result, "confidence", high)))),
               TRUE, FALSE,
               [extracted_info |-> extract_transaction_info(user_input)])
        ELSE [category |-> cat_refund,
              response |-> Msg("I'd be happy to help with your refund request. Please provide your Invoice Number (format: INV####) and Customer ID (format: CUST###) so I can look up your transaction."),
              confidence |-> Str(Get(parsed_result, "confidence", medium)),
              needs_routing |-> FALSE,
              resolved |-> FALSE,
              needs_more_info |-> TRUE]
   ELSE IF category = cat_faq
   THEN [category |-> cat_faq,
         response |-> Msg("I'll help you find the information you're looking for. Let me search our knowledge base for you."),
         confidence |-> Str(Get(parsed_result, "confidence", high)),
         needs_routing |-> TRUE,
         resolved |-> FALSE]
   ELSE [category |-> cat_other,
         response |-> Msg("Thank you for contacting us! I'd be happy to help you. Could you please provide more specific details about what you need assistance with? ..."),
         confidence |-> Str(Get(parsed_result, "confidence", medium)),
         needs_routing |-> FALSE,
         resolved |-> FALSE,
         needs_clarification |-> TRUE]

triage_system_prompt == "TriageAgent.get_system_prompt()"

\* the return value of TriageAgent.process when validation fails
triage_invalid_result(error_msg) ==
   [category |-> cat_other, response |-> Msg(error_msg), confidence |-> Str(high),
    needs_routing |-> FALSE, resolved |-> FALSE]

\* the return value of TriageAgent.process when an exception was raised
triage_error_result ==
   [category |-> cat_other,
    response |-> Msg("I'm sorry, I'm having trouble processing your request. Please try again."),
    confidence |-> Str(low), needs_routing |-> FALSE, resolved |-> FALSE]

\* TriageAgent.process, with its local variables: the value returned is
\* .result, the agent's cache afterwards is .cache; .raised is whether an
\* exception reached the handler of process
triage_process(cache, now, has_client, user_input, api) ==
   LET check == validate_query_input(user_input)
       sanitized_input == sanitize_input(user_input)
       rule_based_category == classify_query_intent(sanitized_input)
       ai == process_with_cache(cache, now, has_client, sanitized_input,
                                triage_system_prompt, api)
       parsed_result ==
          IF has_client THEN parse_ai_response(ai.response)
          ELSE [reasoning |-> rule_based_reasoning, confidence |-> medium]
       final_category ==
          IF has_client
          THEN validate_classification(
                  Get(parsed_result, "category", rule_based_category),
                  rule_based_category, sanitized_input)
          ELSE rule_based_category
       has_complete_refund_info == is_complete_refund_request(sanitized_input)
   IN  IF ~check.is_valid
       THEN [is_valid |-> FALSE, sanitized_input |-> None,
             rule_based_category |-> None, asked_ai |-> FALSE,
             api_called |-> FALSE, ai_response |-> None,
             parsed_result |-> EmptyDict, final_category |-> None,
             result |-> triage_invalid_result(check.error_msg), cache |-> cache,
             raised |-> FALSE]
       ELSE IF has_client /\ cache_key_raises(sanitized_input)
       THEN [is_valid |-> TRUE, sanitized_input |-> sanitized_input,
             rule_based_category |-> rule_based_category, asked_ai |-> TRUE,
             api_called |-> FALSE, ai_response |-> None,
             parsed_result |-> EmptyDict, final_category |-> None,
             result |-> triage_error_result, cache |-> cache,
             raised |-> TRUE]
       ELSE [is_valid |-> TRUE, sanitized_input |-> sanitized_input,
             rule_based_category |-> rule_based_category,
             asked_ai |-> has_client,
             api_called |-> has_client /\ ai.called,
             ai_response |-> IF has_client THEN ai.response ELSE None,
             parsed_result |-> parsed_result,
             final_category |-> final_category,
             result |-> build_response(final_category, sanitized_input,
                                       parsed_result, has_complete_refund_info),
             cache |-> IF has_client THEN ai.cache ELSE cache,
             raised |-> FALSE]

(***************************************************************************)
(* app.py: CustomerSupportApp._determine_routing                           *)
(***************************************************************************)
refund_indicators ==
   << <<"r","e","f","u","n","d">>,
      <<"r","e","t","u","r","n">>,
      <<"m","o","n","e","y"," ","b","a","c","k">>,
      <<"i","n","v">>,
      <<"i","n","v","o","i","c","e">> >>

faq_indicators ==
   << <<"h","o","w">>,
      <<"w","h","a","t">>,
      <<"p","o","l","i","c","y">>,
      <<"s","p","e","c","i","f","i","c","a","t","i","o","n">>,
      <<"d","i","m","e","n","s","i","o","n">> >>

\* routing_confidence reading the label medium as 0.7
routing_confidence_medium_higher(confidence) ==
   IF confidence.t = "str"
   THEN CASE confidence.v = high   -> 8
          [] confidence.v = medium -> 7
          [] confidence.v = low    -> 4
          [] OTHER                 -> 5
   ELSE confidence.v

\* confidence_map.get(confidence, 0.5) for a str, the value itself otherwise
routing_confidence(confidence) ==
   IF confidence.t = "str"
   THEN CASE confidence.v = high   -> 8
          [] confidence.v = medium -> 6
          [] confidence.v = low    -> 4
          [] OTHER                 -> 5
   ELSE confidence.v

refund_strength(user_input) == count_in(refund_indicators, lower(user_input))

faq_strength(user_input) == count_in(faq_indicators, lower(user_input))

route_refund == "refund"

route_faq == "faq"

route_triage == "triage"

\* _determine_routing with >= in place of > in its first two tests
determine_routing_at_least(triage_result, user_input) ==
   LET category == Get(triage_result, "category", cat_other)
       confidence == routing_confidence(Get(triage_result, "confidence", Num(5)))
   IN  IF category = cat_refund /\ confidence >= 6
       THEN [route_to |-> route_refund, confidence |-> confidence]
       ELSE IF category = cat_faq /\ confidence >= 6
       THEN [route_to |-> route_faq, confidence |-> confidence]
       ELSE IF /\ refund_strength(user_input) > faq_strength(user_input)
               /\ refund_strength(user_input) > 0
       THEN [route_to |-> route_refund, confidence |-> 7]
       ELSE IF /\ faq_strength(user_input) > refund_strength(user_input)
               /\ faq_strength(user_input) > 0
       THEN [route_to |-> route_faq, confidence |-> 7]
       ELSE [route_to |-> route_triage, confidence |-> confidence]

\* _determine_routing(triage_result, user_input, context); context is not read
determine_routing(triage_result, user_input) ==
   LET category == Get(triage_result, "category", cat_other)
       confidence == routing_confidence(Get(triage_result, "confidence", Num(5)))
   IN  IF category = cat_refund /\ confidence > 6
       THEN [route_to |-> route_refund, confidence |-> confidence]
       ELSE IF category = cat_faq /\ confidence > 6
       THEN [route_to |-> route_faq, confidence |-> confidence]
       ELSE IF /\ refund_strength(user_input) > faq_strength(user_input)
               /\ refund_strength(user_input) > 0
       THEN [route_to |-> route_refund, confidence |-> 7]
       ELSE IF /\ faq_strength(user_input) > refund_strength(user_input)
               /\ faq_strength(user_input) > 0
       THEN [route_to |-> route_faq, confidence |-> 7]
       ELSE [route_to |-> route_triage, confidence |-> confidence]

(***************************************************************************)
(* utils/database.py: the transaction source (data/transactions.csv, read  *)
(* on every lookup), here a table of three rows.                           *)
(***************************************************************************)
inv1001 == <<"I","N","V","1","0","0","1">>

inv1002 == <<"I","N","V","1","0","0","2">>

cust123 == <<"C","U","S","T","1","2","3">>

cust456 == <<"C","U","S","T","4","5","6">>

Transactions ==
   << [InvoiceNo |-> inv1001, CustomerID |-> cust123, StockCode |-> "SKU001",
       Description |-> "Wireless Mouse", Quantity |-> 2, UnitPrice |-> 25,
       InvoiceDate |-> "2024-01-15"],
      [InvoiceNo |-> inv1002, CustomerID |-> cust456, StockCode |-> "SKU002",
       Description |-> "USB Hub", Quantity |-> 1, UnitPrice |-> 40,
       InvoiceDate |-> "2024-02-01"],
      [InvoiceNo |-> inv1001, CustomerID |-> cust123, StockCode |-> "SKU003",
       Description |-> "Laptop Stand", Quantity |-> 1, UnitPrice |-> 30,
       InvoiceDate |-> "2024-01-15"] >>

\* verify_transaction matching the invoice number alone
verify_transaction_by_invoice(invoice_no, customer_id) ==
   LET match == SelectSeq(Transactions, LAMBDA row : row.InvoiceNo = invoice_no)
   IN  IF match # <<>> THEN match[1] ELSE None

\* DatabaseManager.verify_transaction: the first matching row, or None
verify_transaction(invoice_no, customer_id) ==
   LET match == SelectSeq(Transactions,
                          LAMBDA row : /\ row.InvoiceNo = invoice_no
                                       /\ row.CustomerID = customer_id)
   IN  IF match # <<>> THEN match[1] ELSE None

(***************************************************************************)
(* agents/refund_agent.py: RefundAgent                                     *)
(***************************************************************************)
reason_indicators ==
   << <<"b","e","c","a","u","s","e">>,
      <<"r","e","a","s","o","n">>,
      <<"d","u","e"," ","t","o">>,
      <<"s","i","n","c","e">>,
      <<"a","s">>,
      <<"d","e","f","e","c","t","i","v","e">>,
      <<"b","r","o","k","e","n">>,
      <<"n","o","t"," ","w","o","r","k","i","n","g">>,
      <<"w","r","o","n","g">>,
      <<"m","i","s","t","a","k","e">>,
      <<"c","h","a","n","g","e","d"," ","m","i","n","d">> >>

MinExtractedReasonLen == 10

MinWholeInputLen == 20

\* s[:n]
prefix(s, n) == IF Len(s) <= n THEN s ELSE SubSeq(s, 1, n)

\* parts[1].strip() of input_lower.split(indicator, 1)
potential_reason(indicator, input_lower) ==
   strip(split_once(input_lower, indicator)[2])

\* _extract_refund_reason: None when no reason is found
extract_refund_reason(user_input) ==
   LET input_lower == lower(user_input)
       usable == {i \in 1..Len(reason_indicators) :
                    /\ Contains(reason_indicators[i], input_lower)
                    /\ Len(potential_reason(reason_indicators[i], input_lower))
                          > MinExtractedReasonLen}
   IN  IF usable # {}
       THEN prefix(potential_reason(reason_indicators[Min(usable)], input_lower),
                   MaxReasonLen)
       ELSE IF Len(strip(user_input)) > MinWholeInputLen
       THEN prefix(strip(user_input), MaxReasonLen)
       ELSE None

field_invoice == "Invoice Number (format: INV####)"

field_customer == "Customer ID (format: CUST###)"

\* _request_transaction_info
request_transaction_info(extracted_info) ==
   LET missing_fields ==
          (IF extracted_info.invoice_no = None THEN <<field_invoice>> ELSE <<>>)
          \o (IF extracted_info.customer_id = None THEN <<field_customer>> ELSE <<>>)
   IN  to_dict(AgentResponse(
          Fmt("To process your refund request, I need the following information:\n{missing_fields} and please tell us the reason of return.\n\nYou can find these details in your order confirmation email or receipt.",
              <<missing_fields>>),
          FALSE, cat_refund, DefaultConfidence, FALSE, TRUE,
          [missing_fields |-> missing_fields]))

\* _handle_transaction_not_found
handle_transaction_not_found(invoice_no, customer_id) ==
   to_dict(AgentResponse(
      Fmt("I couldn't find a transaction matching:\n Invoice Number: {invoice_no}\n Customer ID: {customer_id}\n\nPlease double-check these details. ...",
          <<invoice_no, customer_id>>),
      FALSE, cat_refund, DefaultConfidence, TRUE, FALSE,
      [transaction_found |-> FALSE]))

\* _request_refund_reason
request_refund_reason(transaction) ==
   to_dict(AgentResponse(
      Fmt("Great! I found your transaction:\n\n **Product**: {Description}\n **SKU ID**: {StockCode}\n **Purchase Date**: {InvoiceDate}\n **Amount**: ${UnitPrice} x {Quantity}\n\nTo complete your refund request, please tell me the reason for the return. ...",
          <<transaction.Description, transaction.StockCode, transaction.InvoiceDate,
            transaction.UnitPrice, transaction.Quantity>>),
      FALSE, cat_refund, DefaultConfidence, FALSE, TRUE,
      [transaction_verified |-> TRUE, awaiting_reason |-> TRUE]))

\* _generate_standard_refund_response
generate_standard_refund_response(transaction, reason) ==
   Fmt("Thank you for providing the refund details. I've processed your refund request:\n\n **Product**: {Description}\n **Invoice**: {InvoiceNo}\n **Reason**: {reason}\n **Refund Amount**: ${amount}\n\n**Next Steps**: ...",
       <<transaction.Description, transaction.InvoiceNo, reason,
         transaction.UnitPrice * transaction.Quantity>>)

\* _process_verified_refund: the value returned (.result), the agent's
\* cache afterwards and whether the completion capability was called;
\* .raised when process_with_cache raises, and nothing is returned
process_verified_refund(cache, now, has_client, user_input, transaction, context, api) ==
   LET extracted == extract_refund_reason(user_input)
       refund_reason ==
          IF extracted # None THEN extracted ELSE Get(context, "refund_reason", None)
       check == validate_refund_reason(refund_reason)
       ai == process_with_cache(
                cache, now, has_client,
                Fmt("Refund request for {Description}. Reason: {refund_reason}",
                    <<transaction.Description, refund_reason>>),
                Fmt("RefundAgent.get_system_prompt()\n\nTransaction Details: {transaction}",
                    <<transaction>>),
                api)
       ai_response ==
          IF has_client THEN Fmt("{ai_response}", <<ai.response>>)
          ELSE generate_standard_refund_response(transaction, refund_reason)
       refund_data ==
          [customer_id |-> transaction.CustomerID,
           invoice_no |-> transaction.InvoiceNo,
           stock_code |-> transaction.StockCode,
           product_description |-> transaction.Description,
           quantity |-> transaction.Quantity,
           unit_price |-> transaction.UnitPrice,
           refund_reason |-> refund_reason]
   IN  IF extracted = None /\ Get(context, "refund_reason", None) = None
       THEN [result |-> request_refund_reason(transaction), cache |-> cache,
             called |-> FALSE, raised |-> FALSE]
       ELSE IF ~check.is_valid
       THEN [result |-> to_dict(AgentResponse(
                           Fmt("Please provide a more detailed refund reason. {reason_error}",
                               <<check.error_msg>>),
                           FALSE, cat_refund, DefaultConfidence, FALSE, TRUE, None)),
             cache |-> cache, called |-> FALSE, raised |-> FALSE]
       ELSE IF has_client /\ cache_key_raises(refund_reason)
       THEN [result |-> None, cache |-> cache, called |-> FALSE, raised |-> TRUE]
       ELSE [result |-> to_dict(AgentResponse(
                           ai_response, TRUE, cat_refund, Num(9), FALSE, FALSE,
                           [refund_data |-> refund_data, transaction_verified |-> TRUE])),
             cache |-> IF has_client THEN ai.cache ELSE cache,
             called |-> has_client /\ ai.called, raised |-> FALSE]

\* the return value of RefundAgent.process when an exception was raised
refund_error_result ==
   to_dict(AgentResponse(
      Msg("I apologize, but I'm experiencing technical difficulties. Please contact our customer service team directly for refund assistance."),
      FALSE, cat_refund, DefaultConfidence, TRUE, FALSE, None))

\* RefundAgent.process(user_input, context), with its local variables: the
\* value returned is .result, the agent's cache afterwards is .cache;
\* .raised is whether an exception reached the handler of process
refund_process(cache, now, has_client, user_input, context, api) ==
   LET extracted_info == extract_transaction_info(user_input)
       from_context ==
          /\ extracted_info.invoice_no = None
          /\ Get(context, "extracted_info", None) # None
       invoice_no ==
          IF from_context THEN Get(context.extracted_info, "invoice_no", None)
          ELSE extracted_info.invoice_no
       customer_id ==
          IF from_context THEN Get(context.extracted_info, "customer_id", None)
          ELSE extracted_info.customer_id
       transaction == verify_transaction(invoice_no, customer_id)
       verified == process_verified_refund(cache, now, has_client, user_input,
                                           transaction, context, api)
   IN  IF invoice_no = None \/ customer_id = None
       THEN [extracted_info |-> extracted_info, invoice_no |-> invoice_no,
             customer_id |-> customer_id, transaction |-> None,
             api_called |-> FALSE,
             result |-> request_transaction_info(extracted_info), cache |-> cache,
             raised |-> FALSE]
       ELSE IF transaction = None
       THEN [extracted_info |-> extracted_info, invoice_no |-> invoice_no,
             customer_id |-> customer_id, transaction |-> None,
             api_called |-> FALSE,
             result |-> handle_transaction_not_found(invoice_no, customer_id),
             cache |-> cache, raised |-> FALSE]
       ELSE [extracted_info |-> extracted_info, invoice_no |-> invoice_no,
             customer_id |-> customer_id, transaction |-> transaction,
             api_called |-> verified.called,
             result |-> IF verified.raised THEN refund_error_result
                        ELSE verified.result,
             cache |-> verified.cache, raised |-> verified.raised]

(***************************************************************************)
(* agents/faq_agent.py: FAQAgent.  The records DatabaseManager.search_faq  *)
(* returns for a question are an input of the handler.                     *)
(***************************************************************************)
resolution_indicators ==
   << <<"s","p","e","c","i","f","i","c","a","t","i","o","n","s">>,
      <<"p","o","l","i","c","y">>,
      <<"d","a","y","s">>,
      <<"w","a","r","r","a","n","t","y">>,
      <<"s","h","i","p","p","i","n","g">>,
      <<"p","a","y","m","e","n","t">>,
      <<"r","e","t","u","r","n">>,
      <<"c","o","m","p","a","t","i","b","l","e">>,
      <<"d","i","m","e","n","s","i","o","n","s">>,
      <<"p","r","i","c","e">>,
      <<"s","i","z","e">>,
      <<"w","e","i","g","h","t">>,
      <<"m","a","t","e","r","i","a","l">>,
      <<"c","o","l","o","r">>,
      <<"m","o","d","e","l">>,
      <<"v","e","r","s","i","o","n">> >>

uncertainty_phrases ==
   << <<"i"," ","d","o","n","'","t"," ","h","a","v","e">>,
      <<"n","o","t"," ","a","v","a","i","l","a","b","l","e">>,
      <<"c","o","n","t","a","c","t"," ","s","u","p","p","o","r","t">>,
      <<"c","h","e","c","k"," ","o","u","r"," ","w","e","b","s","i","t","e">>,
      <<"i","'","m"," ","n","o","t"," ","s","u","r","e">>,
      <<"u","n","a","b","l","e"," ","t","o"," ","f","i","n","d">> >>

MinResolvedLen == 100

MinResolvedIndicators == 2

\* _assess_resolution_quality
assess_resolution_quality(user_input, faq_results, ai_response) ==
   LET response_lower == lower(ai_response)
       indicator_count == count_in(resolution_indicators, response_lower)
   IN  IF Len(ai_response) > MinResolvedLen /\ indicator_count >= MinResolvedIndicators
       THEN TRUE
       ELSE IF any_in(uncertainty_phrases, response_lower) THEN FALSE
       ELSE Len(faq_results) > 0 /\ indicator_count > 0

anonymous == "anonymous"

\* _log_faq_interaction: the rows added to conversation_logs (none when
\* joining matched_faqs, a list of int ids, raises)
log_faq_interaction(question, category, customer_id, resolved, matched_faqs) ==
   IF matched_faqs # <<>> \/ ~encodable(question) THEN <<>>
   ELSE << [session_id |-> IF customer_id = None THEN anonymous ELSE customer_id,
            user_input |-> question,
            agent_response |-> Fmt("FAQ Category: {category} - Resolved: {resolved}",
                                   <<category, resolved>>),
            category |-> category,
            resolved |-> resolved,
            needs_followup |-> ~resolved] >>

\* _handle_no_faq_found
handle_no_faq_found(user_input) ==
   to_dict(AgentResponse(
      Msg("I don't have specific information about your question in our current FAQ database. ..."),
      FALSE, cat_faq, DefaultConfidence, TRUE, FALSE,
      [faq_found |-> FALSE, suggested_action |-> "contact_support"]))

\* [faq['id'] for faq in faq_results]
faq_ids(faq_results) == [i \in 1..Len(faq_results) |-> faq_results[i].id]

MaxRelatedAnswerLen == 100

\* _generate_direct_response
generate_direct_response(user_input, faq_results) ==
   to_dict(AgentResponse(
      Fmt("**{question}**\n\n{answer}{related}\n\nIs there anything else I can help you with regarding this topic?",
          <<faq_results[1].question, faq_results[1].answer,
            [i \in 1..(Len(faq_results) - 1) |->
               <<faq_results[i + 1].question,
                 prefix(faq_results[i + 1].answer, MaxRelatedAnswerLen),
                 Len(faq_results[i + 1].answer) > MaxRelatedAnswerLen>>]>>),
      TRUE, cat_faq, Num(9), FALSE, FALSE,
      [faq_found |-> TRUE, matched_faqs |-> faq_ids(faq_results),
       source |-> "direct_faq"]))

\* _generate_ai_response: the value returned (.result), the agent's cache
\* afterwards and whether the completion capability was called; when
\* process_with_cache raises (.raised) the direct response is returned
generate_ai_response(cache, now, has_client, user_input, faq_results, api) ==
   LET ai == process_with_cache(
                cache, now, has_client, user_input,
                Fmt("FAQAgent.get_system_prompt()\n\nRELEVANT FAQ INFORMATION:\n\n{faq_context}",
                    <<faq_results>>),
                api)
       resolved == assess_resolution_quality(user_input, faq_results, ai.response)
   IN  IF cache_key_raises(user_input)
       THEN [result |-> generate_direct_response(user_input, faq_results),
             cache |-> cache, called |-> FALSE, raised |-> TRUE]
       ELSE [result |-> to_dict(AgentResponse(
                           Fmt("{ai_response}", <<ai.response>>), resolved, cat_faq,
                           Num(8), ~resolved, FALSE,
                           [faq_found |-> TRUE, matched_faqs |-> faq_ids(faq_results),
                            source |-> "ai_enhanced"])),
             cache |-> ai.cache, called |-> ai.called, raised |-> FALSE]

\* FAQAgent.process(user_input, context) when search_faq returns
\* faq_results: the value returned (.result), the rows it adds to
\* conversation_logs (.logs) and the agent's cache afterwards; .raised is
\* whether an exception was raised and handled
faq_process(cache, now, has_client, user_input, context, faq_results, api) ==
   LET customer_id == Get(context, "customer_id", None)
       ai == generate_ai_response(cache, now, has_client, user_input, faq_results, api)
       result == IF has_client THEN ai.result
                 ELSE generate_direct_response(user_input, faq_results)
   IN  IF faq_results = <<>>
       THEN [result |-> handle_no_faq_found(user_input),
             logs |-> log_faq_interaction(user_input, "unanswered", customer_id,
                                          FALSE, <<>>),
             api_called |-> FALSE, cache |-> cache, raised |-> FALSE]
       ELSE [result |-> result,
             logs |-> log_faq_interaction(
                         user_input, Get(faq_results[1], "category", "general"),
                         customer_id, Get(result, "resolved", FALSE),
                         Get(result, "matched_faqs", <<>>)),
             api_called |-> has_client /\ ai.called,
             cache |-> IF has_client THEN ai.cache ELSE cache,
             raised |-> has_client /\ ai.raised]

(***************************************************************************)
(* utils/database.py: DatabaseManager on the session database.  database   *)
(* is the record of its tables: sessions (session id -> row),              *)
(* conversation_logs and refund_requests (rows in insertion order),        *)
(* session_context (session id -> context_data).  While another connection *)
(* holds the write lock of the database file (.locked) a SELECT still      *)
(* succeeds and every statement that writes raises                         *)
(* sqlite3.OperationalError; a text that cannot be encoded raises          *)
(* UnicodeEncodeError when it is bound to a statement.                     *)
(***************************************************************************)
\* get_session_info: None when the session has no row
get_session_info(database, session_id) ==
   IF session_id \in DOMAIN database.sessions
   THEN [session_id |-> session_id,
         query_count |-> database.sessions[session_id].query_count]
   ELSE None

\* is_session_valid with <= in place of <
is_session_valid_inclusive(database, session_id) ==
   IF get_session_info(database, session_id) = None THEN FALSE
   ELSE get_session_info(database, session_id).query_count <= MAX_QUERIES_PER_SESSION

\* is_session_valid
is_session_valid(database, session_id) ==
   IF get_session_info(database, session_id) = None THEN FALSE
   ELSE get_session_info(database, session_id).query_count < MAX_QUERIES_PER_SESSION

\* update_session_activity counting the query twice
update_session_activity_twice(database, session_id) ==
   IF database.locked THEN database
   ELSE IF session_id \in DOMAIN database.sessions
   THEN [database EXCEPT !.sessions[session_id].query_count = @ + 2]
   ELSE database

\* update_session_activity: UPDATE sessions SET query_count = query_count + 1;
\* an exception is printed and False returned
update_session_activity(database, session_id) ==
   IF database.locked THEN database
   ELSE IF session_id \in DOMAIN database.sessions
   THEN [database EXCEPT !.sessions[session_id].query_count = @ + 1]
   ELSE database

\* log_conversation: INSERT INTO conversation_logs; an exception is printed
log_conversation(database, session_id, user_input, agent_response, category, resolved, needs_followup) ==
   IF database.locked \/ ~encodable(user_input) THEN database
   ELSE [database EXCEPT !.conversation_logs =
            Append(@, [session_id |-> session_id, user_input |-> user_input,
                       agent_response |-> agent_response, category |-> category,
                       resolved |-> resolved, needs_followup |-> needs_followup])]

\* log_refund_request rolls back and raises the exception again: another
\* connection holds the write lock, or a parameter cannot be encoded
log_refund_request_raises(database, session_id, refund_data) ==
   \/ database.locked
   \/ ~encodable(Get(refund_data, "refund_reason", <<>>))

\* log_refund_request: INSERT INTO refund_requests and the UPDATE of the
\* session's query_count, in one transaction
log_refund_request(database, session_id, refund_data) ==
   IF log_refund_request_raises(database, session_id, refund_data) THEN database
   ELSE update_session_activity(
      [database EXCEPT !.refund_requests =
          Append(@, [session_id |-> session_id,
                     customer_id |-> Get(refund_data, "customer_id", None),
                     invoice_no |-> Get(refund_data, "invoice_no", None),
                     stock_code |-> Get(refund_data, "stock_code", None),
                     product_description |-> Get(refund_data, "product_description", None),
                     quantity |-> Get(refund_data, "quantity", None),
                     unit_price |-> Get(refund_data, "unit_price", None),
                     refund_reason |-> Get(refund_data, "refund_reason", None)])],
      session_id)

\* cleanup_session_data without the DELETE FROM conversation_logs
cleanup_session_data_keeps_logs(database, session_id) ==
   [database EXCEPT
      !.refund_requests = SelectSeq(@, LAMBDA row : row.session_id # session_id),
      !.sessions = [s \in (DOMAIN @) \ {session_id} |-> @[s]]]

\* cleanup_session_data: DELETE FROM conversation_logs, refund_requests and
\* sessions WHERE session_id = ?; an exception is printed
cleanup_session_data(database, session_id) ==
   IF database.locked THEN database
   ELSE
   [database EXCEPT
      !.conversation_logs = SelectSeq(@, LAMBDA row : row.session_id # session_id),
      !.refund_requests = SelectSeq(@, LAMBDA row : row.session_id # session_id),
      !.sessions = [s \in (DOMAIN @) \ {session_id} |-> @[s]]]

(***************************************************************************)
(* app.py: CustomerSupportApp.  state is st.session_state.                 *)
(***************************************************************************)
\* _save_context_to_db: INSERT OR REPLACE INTO session_context (no handler
\* of the application calls it)
save_context_to_db(state, database) ==
   IF database.locked THEN database
   ELSE
   [database EXCEPT !.session_context =
       Put(@, state.session_id,
           [customer_info |-> state.customer_info,
            current_context |-> state.current_context,
            awaiting_info |-> state.awaiting_info,
            required_fields |-> state.required_fields])]

\* _load_context_from_db
load_context_from_db(state, database) ==
   IF state.session_id \in DOMAIN database.session_context
   THEN LET context_data == database.session_context[state.session_id]
        IN  [state EXCEPT
               !.customer_info = Get(context_data, "customer_info", EmptyDict),
               !.current_context = Get(context_data, "current_context", EmptyDict),
               !.awaiting_info = Get(context_data, "awaiting_info", FALSE),
               !.required_fields = Get(context_data, "required_fields", <<>>)]
   ELSE state

\* the message route_and_process returns when an exception reaches its
\* handler
route_error_response ==
   [role |-> "assistant",
    content |-> Msg("I apologize, but I encountered an error processing your request. Please try again or contact our support team."),
    metadata |-> [category |-> cat_error, resolved |-> FALSE,
                  needs_followup |-> TRUE]]

\* the refund data read from the result's metadata, where the refund agent
\* puts it
result_metadata_refund_data(result) ==
   Get(Get(result, "metadata", EmptyDict), "refund_data", None)

\* result.get("refund_data") in route_and_process
result_refund_data(result) ==
   Get(result, "refund_data", None)

\* route_and_process, from the agent's result on: the session state and the
\* database updates of the branch taken, and the message returned.  triage,
\* refund and faq are what the agents' process calls return (the refund and
\* the FAQ agent are called only on their branch).
route_result(state, database, caches, context, triage, triage_result, route_to, refund, faq) ==
   LET category == Get(triage_result, "category", cat_general)
       confidence == routing_confidence(Get(triage_result, "confidence", Num(5)))
       result ==
          IF route_to = route_refund THEN refund.result
          ELSE IF route_to = route_faq THEN faq.result
          ELSE triage_result
       state1 ==
          IF /\ route_to = route_refund
             /\ Get(result, "requires_verification", FALSE)
          THEN [state EXCEPT !.awaiting_info = TRUE,
                             !.required_fields = Get(result, "required_fields", <<>>)]
          ELSE state
       database1 ==
          IF route_to = route_refund
          THEN IF result_refund_data(result) # None
               THEN log_refund_request(database, state.session_id,
                                       result_refund_data(result))
               ELSE database
          ELSE IF route_to = route_faq /\ ~database.locked
          THEN [database EXCEPT !.conversation_logs = @ \o faq.logs]
          ELSE database
       log_raised ==
          /\ route_to = route_refund
          /\ result_refund_data(result) # None
          /\ log_refund_request_raises(database, state.session_id,
                                       result_refund_data(result))
   IN  [response |->
           IF log_raised THEN route_error_response
           ELSE
           [role |-> "assistant",
            content |-> Get(result, "response",
                            Msg("I apologize, but I couldn't process your request.")),
            metadata |-> [category |-> category,
                          confidence |-> confidence,
                          resolved |-> Get(result, "resolved", TRUE),
                          needs_followup |-> Get(result, "needs_followup", FALSE)]],
        state |-> IF log_raised THEN state1
                  ELSE [state1 EXCEPT !.current_context =
                                         Get(result, "context", EmptyDict)],
        database |-> database1,
        caches |-> [triage |-> triage.cache,
                    refund |-> IF route_to = route_refund
                               THEN refund.cache ELSE caches.refund,
                    faq |-> IF route_to = route_faq
                            THEN faq.cache ELSE caches.faq],
        context |-> context,
        triage_result |-> triage_result,
        route_to |-> route_to,
        result |-> result,
        triage_api_called |-> triage.api_called,
        agent_api_called |->
           IF route_to = route_refund THEN refund.api_called
           ELSE IF route_to = route_faq THEN faq.api_called
           ELSE FALSE,
        triage_raised |-> triage.raised,
        agent_raised |->
           IF route_to = route_refund THEN refund.raised
           ELSE IF route_to = route_faq THEN faq.raised
           ELSE FALSE,
        routing_raised |-> log_raised]

\* route_and_process, from the routing decision on: the agent call of each
\* branch
route_decided(state, database, caches, now, has_client, user_input, env, context, triage, triage_result) ==
   route_result(state, database, caches, context, triage, triage_result,
                determine_routing(triage_result, user_input).route_to,
                refund_process(caches.refund, now, has_client, user_input, context,
                               env.agent_api),
                faq_process(caches.faq, now, has_client, user_input, context,
                            env.faq_results, env.agent_api))

\* route_and_process, from the triage agent's answer on: a response object
\* is converted with to_dict
route_triaged(state, database, caches, now, has_client, user_input, env, context, triage) ==
   route_decided(state, database, caches, now, has_client, user_input, env, context,
                 triage,
                 IF "obj" \in DOMAIN triage.result THEN to_dict(triage.result)
                 ELSE triage.result)

\* route_and_process(user_input): the message returned (.response), the
\* session state, the database and the agents' caches afterwards, with the
\* local variables.  env is what the environment does during the call: the
\* completion call made for triage (.triage_api) and for the specialist
\* agent (.agent_api), and the records search_faq finds (.faq_results).
route_and_process(state, database, caches, now, has_client, user_input, env) ==
   route_triaged(state, database, caches, now, has_client, user_input, env,
                 [session_id |-> state.session_id,
                  customer_info |-> state.customer_info,
                  previous_context |-> state.current_context],
                 triage_process(caches.triage, now, has_client, user_input,
                                env.triage_api))

\* process_user_message, from the return of route_and_process on: the
\* assistant message is appended, the conversation logged and the context
\* loaded
message_processed(state, user_input, routed) ==
   LET response == routed.response
       state2 == [routed.state EXCEPT !.messages = Append(@, response)]
       database2 ==
          log_conversation(routed.database, state.session_id, user_input,
                           response.content,
                           Get(response.metadata, "category", cat_general),
                           Get(response.metadata, "resolved", TRUE),
                           Get(response.metadata, "needs_followup", FALSE))
   IN  [processed |-> TRUE,
        state |-> load_context_from_db(state2, database2),
        database |-> database2,
        caches |-> routed.caches,
        context |-> routed.context,
        triage_result |-> routed.triage_result,
        route_to |-> routed.route_to,
        result |-> routed.result,
        response |-> response,
        triage_api_called |-> routed.triage_api_called,
        agent_api_called |-> routed.agent_api_called,
        triage_raised |-> routed.triage_raised,
        agent_raised |-> routed.agent_raised,
        routing_raised |-> routed.routing_raised]

\* process_user_message with the activity update made before the quota check
process_user_message_counts_rejected(state, database, caches, now, has_client, user_input, env) ==
   IF ~is_session_valid(database, state.session_id)
   THEN [processed |-> FALSE, state |-> state,
         database |-> update_session_activity(database, state.session_id),
         caches |-> caches]
   ELSE message_processed(
           state, user_input,
           route_and_process(
              [state EXCEPT !.messages =
                  Append(@, [role |-> "user", content |-> user_input])],
              update_session_activity(database, state.session_id),
              caches, now, has_client, user_input, env))

\* process_user_message(user_input): .processed is FALSE when the quota
\* check returned before anything was done
process_user_message(state, database, caches, now, has_client, user_input, env) ==
   IF ~is_session_valid(database, state.session_id)
   THEN [processed |-> FALSE, state |-> state, database |-> database,
         caches |-> caches]
   ELSE message_processed(
           state, user_input,
           route_and_process(
              [state EXCEPT !.messages =
                  Append(@, [role |-> "user", content |-> user_input])],
              update_session_activity(database, state.session_id),
              caches, now, has_client, user_input, env))

(***************************************************************************)
(* State.  client: whether the agents hold a completion client (BaseAgent  *)
(* .client); cache: each agent's response cache; now: time.time();         *)
(* st: the chat session state (st.session_state) of each browser session;  *)
(* db: the tables of utils/database.py; last: the call made by the last    *)
(* step, with the local variables of the handler that ran.                 *)
(***************************************************************************)
VARIABLES client, cache, now, st, db, last

vars == <<client, cache, now, st, db, last>>

(***************************************************************************)
(* Inputs.  The messages a user may type and what the completion           *)
(* capability may do when it is called.                                    *)
(***************************************************************************)

text_refund_ids ==
   <<"r","e","f","u","n","d"," ","f","o","r"," ","I","N","V","1","0","0","1"," ","C","U","S","T","1","2","3">>

text_money_back ==
   <<"i"," ","w","a","n","t"," ","m","y"," ","m","o","n","e","y"," ","b","a","c","k">>

text_cancel_order ==
   <<"P","l","e","a","s","e"," ","c","a","n","c","e","l"," ","o","r","d","e","r">>

text_ids_only ==
   <<"i","n","v","1","0","0","1"," ","c","u","s","t","1","2","3">>

text_receipt ==
   <<"l","o","s","t"," ","m","y"," ","r","e","c","e","i","p","t">>

text_shipping_policy ==
   <<"w","h","a","t"," ","i","s"," ","y","o","u","r"," ","s","h","i","p","p","i","n","g"," ","p","o","l","i","c","y">>

text_wholesale ==
   <<"w","h","o","l","e","s","a","l","e"," ","b","u","s","i","n","e","s","s">>

text_hello ==
   <<"h","e","l","l","o"," ","t","h","e","r","e">>

text_refund_policy ==
   <<"r","e","f","u","n","d"," ","p","o","l","i","c","y">>

text_return_policy_bulk ==
   <<"r","e","t","u","r","n"," ","p","o","l","i","c","y"," ","f","o","r"," ","b","u","l","k"," ","o","r","d","e","r">>

text_bulk_refund ==
   <<"b","u","l","k"," ","r","e","f","u","n","d">>

text_invoice_warranty_bulk ==
   <<"i","n","v","o","i","c","e"," ","w","a","r","r","a","n","t","y"," ","b","u","l","k"," ","w","h","o","l","e","s","a","l","e">>

text_quoted_refund ==
   <<" ","r","e","'","f","u","n","d"," "," ","m","e","\t","n","o","w"," ">>

text_too_short ==
   <<" ","h","i"," ">>

\* longer than validate_query_input allows
text_too_long == [i \in 1..(MaxQueryLen + 1) |-> "a"]

TriageTexts ==
   { text_refund_ids,
     text_money_back,
     text_cancel_order,
     text_ids_only,
     text_receipt,
     text_shipping_policy,
     text_wholesale,
     text_hello,
     text_refund_policy,
     text_return_policy_bulk,
     text_bulk_refund,
     text_invoice_warranty_bulk,
     text_quoted_refund,
     text_too_short,
     text_too_long }

reply_refund_high ==
   <<"C","a","t","e","g","o","r","y",":"," ","r","e","f","u","n","d","\n","C","o","n","f","i","d","e","n","c","e",":"," ","h","i","g","h","\n","R","e","a","s","o","n","i","n","g",":"," ","w","a","n","t","s"," ","m","o","n","e","y"," ","b","a","c","k","\n","N","e","x","t"," ","A","c","t","i","o","n",":"," ","r","o","u","t","e"," ","t","o"," ","r","e","f","u","n","d","s">>

reply_faq_high ==
   <<"C","a","t","e","g","o","r","y",":"," ","F","A","Q","\n","C","o","n","f","i","d","e","n","c","e",":"," ","H","i","g","h">>

reply_other_low ==
   <<" ","c","a","t","e","g","o","r","y"," ",":"," ","o","t","h","e","r","\n","c","o","n","f","i","d","e","n","c","e",":"," ","l","o","w","\n">>

reply_partnership_medium ==
   <<"C","a","t","e","g","o","r","y",":"," ","p","a","r","t","n","e","r","s","h","i","p","\n","C","o","n","f","i","d","e","n","c","e",":"," ","m","e","d","i","u","m">>

reply_invalid_category ==
   <<"C","a","t","e","g","o","r","y",":"," ","b","i","l","l","i","n","g","\n","C","o","n","f","i","d","e","n","c","e",":"," ","h","i","g","h">>

reply_no_fields ==
   <<"S","o","r","r","y",","," ","I"," ","c","a","n","n","o","t"," ","c","l","a","s","s","i","f","y"," ","t","h","i","s",".">>

reply_faq_only ==
   <<"C","a","t","e","g","o","r","y",":"," ","f","a","q">>

reply_confidence_only ==
   <<"C","o","n","f","i","d","e","n","c","e",":"," ","c","e","r","t","a","i","n">>

Raises == [raises |-> TRUE]

Replies(content) == [raises |-> FALSE, content |-> content]

\* what the completion call may do for a triage request
TriageAPI ==
   {Raises} \cup
   {Replies(c) : c \in { reply_refund_high,
                         reply_faq_high,
                         reply_other_low,
                         reply_partnership_medium,
                         reply_invalid_category,
                         reply_no_fields,
                         reply_faq_only,
                         reply_confidence_only,
                         <<>> }}

(***************************************************************************)
(* Initial state: the application has been constructed once (app.py,       *)
(* CustomerSupportApp.__init__): initialize_session_state has generated a  *)
(* session id and created its sessions row, and the agents are new.        *)
(***************************************************************************)
SessionIdPool == <<"s1", "s2">>

\* initialize_session_state on an empty st.session_state
NewSessionState(session_id) ==
   [session_id |-> session_id, messages |-> <<>>, customer_info |-> EmptyDict,
    current_context |-> EmptyDict, awaiting_info |-> FALSE,
    required_fields |-> <<>>]

\* DatabaseManager.create_session: INSERT OR REPLACE INTO sessions
create_session(sessions, session_id) ==
   Put(sessions, session_id, [query_count |-> 0])

\* init_session_db on a new database file, then create_session
NewDatabase(session_id) ==
   [sessions |-> create_session(EmptyDict, session_id),
    conversation_logs |-> <<>>,
    refund_requests |-> <<>>,
    session_context |-> EmptyDict,
    locked |-> FALSE,
    issued |-> 1]

NewCaches == [triage |-> <<>>, refund |-> <<>>, faq |-> <<>>]

Constructed ==
   /\ cache = NewCaches
   /\ now = 0
   /\ st = NewSessionState(SessionIdPool[1])
   /\ db = NewDatabase(SessionIdPool[1])
   /\ last = [op |-> "init"]

(***************************************************************************)
(* SpecTriage: one TriageAgent, with or without a client, is sent messages *)
(* one after the other.  The agent is followed while its cache holds the   *)
(* answer to at most the one question it was first asked: the same         *)
(* question again is answered from the cache, ill-formed messages never    *)
(* reach it.  What the completion capability would do is chosen only for   *)
(* a call that reaches it.                                                 *)
(***************************************************************************)
TriageInit == client \in BOOLEAN /\ Constructed

\* TriageAgent.process(user_input), the completion call doing `api`
TriageCall(user_input, api) ==
   \E p \in {triage_process(cache.triage, now, client, user_input, api)} :
       /\ last' = [op |-> "triage", user_input |-> user_input,
                   is_valid |-> p.is_valid,
                   sanitized_input |-> p.sanitized_input,
                   rule_based_category |-> p.rule_based_category,
                   asked_ai |-> p.asked_ai,
                   api_called |-> p.api_called,
                   api_raised |-> p.api_called /\ api.raises,
                   ai_response |-> p.ai_response,
                   parsed_result |-> p.parsed_result,
                   final_category |-> p.final_category,
                   result |-> p.result]
       /\ cache' = [cache EXCEPT !.triage = p.cache]
       /\ UNCHANGED <<client, now, st, db>>

\* the outcomes of the completion call to follow for this message: one when
\* the call is not reached, none when the answer would be cached next to
\* the answer to another question
TriageOutcomes(user_input) ==
   \* a raised call and a returned one are cached under the same key
   LET p == triage_process(cache.triage, now, client, user_input, Raises)
   IN  IF ~p.api_called THEN {Raises}
       ELSE IF cache.triage = <<>> \/ CacheKeys(p.cache) \subseteq CacheKeys(cache.triage)
            THEN TriageAPI
            ELSE {}

TriageNext ==
   \E user_input \in TriageTexts :
      \E api \in TriageOutcomes(user_input) : TriageCall(user_input, api)

SpecTriage == TriageInit /\ [][TriageNext]_vars

(***************************************************************************)
(* Properties of triage (SpecTriage)                                       *)
(***************************************************************************)
TriageRan == last.op = "triage" /\ last.is_valid

\* the override keywords of _validate_classification occur in the text
HasOverrideKeyword == any_in(validate_refund_keywords, lower(last.sanitized_input))

\* C1: a text that the rule classifier labels refund and that holds an
\* override keyword (refund, return, money back, cancel, invoice) is
\* classified refund whatever the AI reply was: a valid category, an invalid
\* one or none.
C1_OverrideKeepsRefund ==
   (TriageRan /\ last.rule_based_category = cat_refund /\ HasOverrideKeyword)
      => /\ last.final_category = cat_refund
         /\ last.result.category = cat_refund

\* C1 happens: the AI reply named another valid category and was overruled
C1_Witness ==
   /\ TriageRan /\ last.api_called
   /\ last.rule_based_category = cat_refund /\ HasOverrideKeyword
   /\ Get(last.parsed_result, "category", None) \in valid_categories \ {cat_refund}
   /\ last.final_category = cat_refund

\* no AI classification result is available: no client, a failed call, or
\* a reply without parsable fields
NoAIResult ==
   \/ ~last.asked_ai
   \/ last.api_raised
   \/ last.parsed_result = EmptyDict

\* C2: when no AI classification result is available, the triage result's
\* category is the rule category and its confidence is medium (0.6); stated
\* for the rule categories that _build_response reports under their own
\* name (partnership is reported as other).
C2_NoAIResultRuleCategoryMedium ==
   (TriageRan /\ NoAIResult /\ last.rule_based_category # cat_partnership)
      => /\ last.result.category = last.rule_based_category
         /\ normalize_confidence(last.result.confidence) = 6

\* C3: a failure of the completion call (no client, a raised error, a reply
\* that names no valid category) leaves triage with a result, the apology
\* text standing for the reply of a raised call, and the reconciled category
\* is the rule category.
C3_FailureIsNoResult ==
   TriageRan =>
      /\ ( \/ ~last.asked_ai
           \/ last.api_raised
           \/ Get(last.parsed_result, "category", None) \notin valid_categories )
         => last.final_category = last.rule_based_category
      /\ last.api_raised
         => /\ last.ai_response = technical_difficulties_text
            /\ last.parsed_result = EmptyDict
      /\ "category" \in DOMAIN last.result

\* C3 happens: the completion call raised for a product question
C3_Witness ==
   /\ TriageRan /\ last.api_raised
   /\ last.rule_based_category = cat_faq
   /\ last.final_category = cat_faq

\* the category with the strictly highest score, other on a tie
strictly_highest(r, f, p) ==
   IF r > f /\ r > p THEN cat_refund
   ELSE IF f > r /\ f > p THEN cat_faq
   ELSE IF p > r /\ p > f THEN cat_partnership
   ELSE cat_other

\* C4: classify_query_intent returns the category whose score is strictly
\* higher than both others, and other when the highest score is tied.
C4_StrictlyHighestElseOther ==
   TriageRan =>
      last.rule_based_category =
         strictly_highest(refund_score(last.sanitized_input),
                          faq_score(last.sanitized_input),
                          partnership_score(last.sanitized_input))

(***************************************************************************)
(* SpecRouter: _determine_routing is called with a triage result and the   *)
(* user's text.                                                            *)
(***************************************************************************)
text_refund_return ==
   <<"r","e","f","u","n","d"," ","r","e","t","u","r","n">>

text_what_policy ==
   <<"w","h","a","t"," ","i","s"," ","t","h","e"," ","p","o","l","i","c","y">>

text_how_return ==
   <<"h","o","w"," ","t","o"," ","r","e","t","u","r","n">>

text_upper_invoice ==
   <<"H","O","W"," ","a","b","o","u","t"," ","m","y"," ","I","N","V","O","I","C","E">>

RouterTexts ==
   { text_refund_return,
     text_what_policy,
     text_how_return,
     text_upper_invoice,
     text_hello,
     text_refund_policy,
     text_shipping_policy }

certain == <<"c","e","r","t","a","i","n">>

RouterConfidences ==
   {Str(high), Str(medium), Str(low), Str(certain),
    Num(4), Num(5), Num(6), Num(7), Num(8), Num(9)}

RouterResults ==
   {[category |-> c, confidence |-> k] :
       c \in {cat_refund, cat_faq, cat_partnership, cat_other}, k \in RouterConfidences}
   \cup {EmptyDict}

RouterInit == client = TRUE /\ Constructed

RouterCall(triage_result, user_input) ==
   /\ last' = [op |-> "route", triage_result |-> triage_result,
               user_input |-> user_input,
               route_decision |-> determine_routing(triage_result, user_input)]
   /\ UNCHANGED <<client, cache, now, st, db>>

RouterNext ==
   \E triage_result \in RouterResults, user_input \in RouterTexts :
      RouterCall(triage_result, user_input)

SpecRouter == RouterInit /\ [][RouterNext]_vars

(***************************************************************************)
(* Properties of the router (SpecRouter)                                   *)
(***************************************************************************)
Routed == last.op = "route"

RoutedCategory == Get(last.triage_result, "category", cat_other)

\* the confidence in tenths, a label read as high 0.8, medium 0.6, low 0.4
RoutedConfidence ==
   LET c == Get(last.triage_result, "confidence", Num(5))
   IN  IF c.t = "float" THEN c.v
       ELSE IF c.v = high THEN 8 ELSE IF c.v = medium THEN 6
       ELSE IF c.v = low THEN 4 ELSE 5

RefundFirst == RoutedCategory = cat_refund /\ RoutedConfidence > 6

FaqFirst == RoutedCategory = cat_faq /\ RoutedConfidence > 6

RefundStronger ==
   /\ refund_strength(last.user_input) > faq_strength(last.user_input)
   /\ refund_strength(last.user_input) > 0

FaqStronger ==
   /\ faq_strength(last.user_input) > refund_strength(last.user_input)
   /\ faq_strength(last.user_input) > 0

\* C5: the router applies its five rules in order, the first that matches
\* deciding: refund above 0.6 to refund and faq above 0.6 to faq at that
\* confidence, then the stronger indicator count to refund or faq at 0.7,
\* then the triage fallback at the original confidence; (other, 0.5,
\* "refund return") goes to refund at 0.7 and a confidence of exactly 0.6
\* satisfies neither of the first two rules.
C5_RouterFiveRules ==
   Routed =>
      /\ RefundFirst
            => last.route_decision = [route_to |-> route_refund, confidence |-> RoutedConfidence]
      /\ (~RefundFirst /\ FaqFirst)
            => last.route_decision = [route_to |-> route_faq, confidence |-> RoutedConfidence]
      /\ (~RefundFirst /\ ~FaqFirst /\ RefundStronger)
            => last.route_decision = [route_to |-> route_refund, confidence |-> 7]
      /\ (~RefundFirst /\ ~FaqFirst /\ ~RefundStronger /\ FaqStronger)
            => last.route_decision = [route_to |-> route_faq, confidence |-> 7]
      /\ (~RefundFirst /\ ~FaqFirst /\ ~RefundStronger /\ ~FaqStronger)
            => last.route_decision = [route_to |-> route_triage, confidence |-> RoutedConfidence]
      /\ ( /\ RoutedCategory = cat_other /\ RoutedConfidence = 5
           /\ last.user_input = text_refund_return )
            => last.route_decision = [route_to |-> route_refund, confidence |-> 7]
      /\ RoutedConfidence = 6 => ~RefundFirst /\ ~FaqFirst

\* C5 happens: (other, 0.5, "refund return") was routed to refund at 0.7
C5_Witness ==
   /\ Routed
   /\ last.triage_result = [category |-> cat_other, confidence |-> Num(5)]
   /\ last.user_input = text_refund_return
   /\ refund_strength(last.user_input) = 2 /\ faq_strength(last.user_input) = 0
   /\ last.route_decision = [route_to |-> route_refund, confidence |-> 7]

(***************************************************************************)
(* SpecRefund: one RefundAgent, with or without a client, is sent messages *)
(* with the context its caller carries.  As in SpecTriage the agent is     *)
(* followed while its cache holds the answer to one request.               *)
(***************************************************************************)
text_because_broken ==
   <<"b","e","c","a","u","s","e"," ","i","t"," ","a","r","r","i","v","e","d"," ","b","r","o","k","e","n">>

text_because_inv ==
   <<"b","e","c","a","u","s","e"," ","t","h","e"," ","I","N","V","1","0","0","1"," ","i","t","e","m"," ","a","r","r","i","v","e","d"," ","b","r","o","k","e","n">>

text_because_upper ==
   <<"b","e","c","a","u","s","e"," ","I","t"," ","a","r","r","i","v","e","d"," ","B","r","o","k","e","n">>

text_pair_unknown ==
   <<"I","N","V","1","0","0","1"," ","C","U","S","T","4","5","6">>

text_invoice_only ==
   <<"m","y"," ","i","n","v","o","i","c","e"," ","i","s"," ","I","N","V","1","0","0","2">>

text_customer_reason ==
   <<"C","U","S","T","1","2","3"," ","b","e","c","a","u","s","e"," ","i","t"," ","i","s"," ","d","e","f","e","c","t","i","v","e">>

text_ids_as_short ==
   <<"I","N","V","1","0","0","1"," ","C","U","S","T","1","2","3"," ","a","s"," ","i","t"," ","b","r","o","k","e">>

text_because_short ==
   <<"b","e","c","a","u","s","e"," ","b","a","d">>

RefundTexts ==
   { text_refund_ids,
     text_ids_only,
     text_because_broken,
     text_because_inv,
     text_because_upper,
     text_pair_unknown,
     text_invoice_only,
     text_customer_reason,
     text_ids_as_short,
     text_because_short }

reason_damaged == <<"i","t","e","m"," ","w","a","s"," ","d","a","m","a","g","e","d"," ","o","n"," ","a","r","r","i","v","a","l">>

reason_short == <<"d","a","m","a","g","e","d">>

\* longer than validate_refund_reason allows
reason_long == [i \in 1..(MaxReasonLen + 1) |-> "a"]

ctx_verified == [extracted_info |-> [invoice_no |-> inv1001, customer_id |-> cust123]]

ctx_invoice_only == [extracted_info |-> [invoice_no |-> inv1002, customer_id |-> None]]

ctx_unknown == [extracted_info |-> [invoice_no |-> inv1002, customer_id |-> cust123]]

\* the context route_and_process builds for a new session
ctx_pipeline ==
   [session_id |-> SessionIdPool[1], customer_info |-> EmptyDict,
    previous_context |-> EmptyDict]

RefundContexts ==
   { EmptyDict,
     ctx_verified,
     ctx_invoice_only,
     ctx_unknown,
     ctx_pipeline,
     Put(ctx_verified, "refund_reason", reason_damaged),
     Put(ctx_verified, "refund_reason", reason_short),
     Put(ctx_verified, "refund_reason", reason_long),
     [refund_reason |-> reason_damaged] }

reply_refund_ack == <<"Y","o","u","r"," ","r","e","f","u","n","d"," ","r","e","q","u","e","s","t"," ","h","a","s"," ","b","e","e","n"," ","r","e","c","e","i","v","e","d",".">>

\* what the completion call may do for a refund request
RefundAPI == {Raises, Replies(reply_refund_ack), Replies(<<>>)}

RefundInit == client \in BOOLEAN /\ Constructed

\* RefundAgent.process(user_input, context), the completion call doing `api`
RefundCall(user_input, context, api) ==
   \E p \in {refund_process(cache.refund, now, client, user_input, context, api)} :
       /\ last' = [op |-> "refund", user_input |-> user_input, context |-> context,
                   extracted_info |-> p.extracted_info,
                   invoice_no |-> p.invoice_no,
                   customer_id |-> p.customer_id,
                   transaction |-> p.transaction,
                   api_called |-> p.api_called,
                   api_raised |-> p.api_called /\ api.raises,
                   result |-> p.result]
       /\ cache' = [cache EXCEPT !.refund = p.cache]
       /\ UNCHANGED <<client, now, st, db>>

\* the outcomes of the completion call to follow for this message
RefundOutcomes(user_input, context) ==
   \* a raised call and a returned one are cached under the same key
   LET p == refund_process(cache.refund, now, client, user_input, context, Raises)
   IN  IF ~p.api_called THEN {Raises}
       ELSE IF cache.refund = <<>> \/ CacheKeys(p.cache) \subseteq CacheKeys(cache.refund)
            THEN RefundAPI
            ELSE {}

RefundNext ==
   \E user_input \in RefundTexts, context \in RefundContexts :
      \E api \in RefundOutcomes(user_input, context) :
         RefundCall(user_input, context, api)

SpecRefund == RefundInit /\ [][RefundNext]_vars

(***************************************************************************)
(* Properties of the refund handler (SpecRefund)                           *)
(***************************************************************************)
RefundRan == last.op = "refund"

\* the handler emitted a refund-data record
EmitsRefundData == "refund_data" \in DOMAIN last.result.metadata

\* NEED_REASON: the reason prompt, unresolved, more information needed
NeedReason ==
   /\ Get(last.result.metadata, "awaiting_reason", FALSE)
   /\ ~last.result.resolved
   /\ last.result.needs_more_info
   /\ ~EmitsRefundData

\* the pair of identifiers is in the transaction source
PairExists(info) ==
   \E i \in 1..Len(Transactions) :
      /\ Transactions[i].InvoiceNo = info.invoice_no
      /\ Transactions[i].CustomerID = info.customer_id

\* C7: with no prior context, a text holding an invoice id and a customer
\* id that exist as a pair and stating no reason, such as "refund for
\* INV1001 CUST123", ends in NEED_REASON: the reason prompt, resolved=false,
\* needs_more_info=true and no refund-data record.
C7_IdsWithoutReasonNeedReason ==
   ( /\ RefundRan
     /\ last.context = EmptyDict
     /\ last.user_input \in {text_refund_ids, text_ids_only}
     /\ PairExists(last.extracted_info) )
      => NeedReason

because_ == <<"b","e","c","a","u","s","e"," ">>

\* the text is "because " followed by a reason of more than 10 characters
BecauseReason ==
   /\ Len(last.user_input) > Len(because_) + 10
   /\ SubSeq(last.user_input, 1, Len(because_)) = because_

ReasonAfterBecause == SubSeq(last.user_input, Len(because_) + 1, Len(last.user_input))

CarriesVerifiedPair ==
   /\ "extracted_info" \in DOMAIN last.context
   /\ PairExists(last.context.extracted_info)

\* C8: with a carried context whose extracted_info is a verified pair, a
\* text "because " followed by a reason of more than 10 characters reaches
\* COMPLETE: resolved=true, confidence 0.9, and a refund-data record whose
\* refund_reason is exactly the text after "because" and whose other fields
\* are those of the verified transaction.
C8_ContextAndReasonComplete ==
   (RefundRan /\ CarriesVerifiedPair /\ BecauseReason)
      => /\ last.result.resolved
         /\ last.result.confidence = Num(9)
         /\ EmitsRefundData
         /\ last.result.metadata.refund_data =
               LET row == verify_transaction(last.context.extracted_info.invoice_no,
                                             last.context.extracted_info.customer_id)
               IN  [customer_id |-> row.CustomerID, invoice_no |-> row.InvoiceNo,
                    stock_code |-> row.StockCode,
                    product_description |-> row.Description,
                    quantity |-> row.Quantity, unit_price |-> row.UnitPrice,
                    refund_reason |-> ReasonAfterBecause]

(***************************************************************************)
(* Spec: the application in one browser.  Every script run constructs      *)
(* CustomerSupportApp again (new agents with empty caches, the session     *)
(* state and the database kept) and handles one event: a chat message or   *)
(* the Clear Session button.  Each run happens a second after the one      *)
(* before; MaxTime bounds the runs followed.                               *)
(***************************************************************************)
MaxTime == 2

faq_shipping ==
   [id |-> 1, question |-> "What is your shipping policy?",
    answer |-> <<"O","r","d","e","r","s"," ","s","h","i","p"," ","w","i","t","h","i","n"," ","2"," ","d","a","y","s",".">>,
    category |-> "shipping"]

faq_returns ==
   [id |-> 2, question |-> "What is your return policy?",
    answer |-> <<"I","t","e","m","s"," ","c","a","n"," ","b","e"," ","r","e","t","u","r","n","e","d"," ","w","i","t","h","i","n"," ","3","0"," ","d","a","y","s",".">>,
    category |-> "returns"]

\* what search_faq may find
FaqSearches == { <<>>, <<faq_shipping, faq_returns>> }

reply_faq_answer == <<"O","u","r"," ","s","h","i","p","p","i","n","g"," ","p","o","l","i","c","y",":"," ","o","r","d","e","r","s"," ","s","h","i","p"," ","w","i","t","h","i","n"," ","2"," ","d","a","y","s",".">>

AppTexts ==
   { text_ids_only,
     text_because_broken,
     text_refund_ids,
     text_shipping_policy,
     text_too_short }

AppTriageAPI == {Raises, Replies(reply_refund_high), Replies(reply_faq_high)}

AppAgentAPI == {Raises, Replies(reply_faq_answer)}

\* what the environment does during a run that handles user_input: the
\* outcomes of a call or search the run does not make are not told apart
TurnEnvs(state, database, user_input) ==
   LET run(env) == process_user_message(state, database, NewCaches, now, client,
                                        user_input, env)
       triage_apis(p) ==
          IF p.processed /\ p.triage_api_called THEN AppTriageAPI ELSE {Raises}
       searches(p) ==
          IF p.processed /\ p.route_to = route_faq THEN FaqSearches ELSE {<<>>}
       agent_apis(p) ==
          IF p.processed /\ p.agent_api_called THEN AppAgentAPI ELSE {Raises}
   IN  UNION { UNION { { [triage_api |-> t, agent_api |-> a, faq_results |-> f] :
                           a \in agent_apis(run([triage_api |-> t, agent_api |-> Raises,
                                                 faq_results |-> f])) } :
                       f \in searches(run([triage_api |-> t, agent_api |-> Raises,
                                           faq_results |-> <<>>])) } :
               t \in triage_apis(run([triage_api |-> Raises, agent_api |-> Raises,
                                      faq_results |-> <<>>])) }

\* what a run that handles a chat message leaves in `last`
TurnRecord(state, database, user_input, p) ==
   IF p.processed
   THEN [op |-> "turn", processed |-> TRUE, session_id |-> state.session_id,
         user_input |-> user_input,
         query_count |-> Get(database.sessions, state.session_id, [query_count |-> 0]).query_count,
         context |-> p.context, triage_result |-> p.triage_result,
         route_to |-> p.route_to, result |-> p.result, response |-> p.response,
         triage_raised |-> p.triage_raised, agent_raised |-> p.agent_raised,
         routing_raised |-> p.routing_raised,
         valid |-> is_session_valid(database, state.session_id),
         locked |-> database.locked]
   ELSE [op |-> "turn", processed |-> FALSE, session_id |-> state.session_id,
         user_input |-> user_input,
         valid |-> is_session_valid(database, state.session_id),
         locked |-> database.locked,
         query_count |-> Get(database.sessions, state.session_id, [query_count |-> 0]).query_count]

Init == client = TRUE /\ Constructed

\* a script run with a chat message: CustomerSupportApp(), then
\* render_main_chat calls process_user_message(user_input)
Run(user_input, env) ==
   /\ \E p \in {process_user_message(load_context_from_db(st, db), db, NewCaches,
                                     now, client, user_input, env)} :
         /\ st' = p.state
         /\ db' = p.database
         /\ cache' = p.caches
         /\ last' = TurnRecord(st, db, user_input, p)
   /\ UNCHANGED client

Turn(user_input, env) ==
   /\ now < MaxTime
   /\ Run(user_input, env)
   /\ now' = now + 1

\* a script run with the Clear Session button: clear_session, then
\* st.rerun() constructs the application on an empty st.session_state
ClearSession ==
   /\ now < MaxTime
   /\ db.issued < Len(SessionIdPool)
   /\ LET session_id == SessionIdPool[db.issued + 1]
          cleaned == cleanup_session_data(db, st.session_id)
      IN  /\ db' = [cleaned EXCEPT !.sessions = IF db.locked THEN @
                                                ELSE create_session(@, session_id),
                                   !.issued = @ + 1]
          /\ st' = load_context_from_db(NewSessionState(session_id), cleaned)
          /\ last' = [op |-> "clear", session_id |-> st.session_id,
                       logged |-> Len(SelectSeq(db.conversation_logs,
                                         LAMBDA row : row.session_id = st.session_id))]
   /\ cache' = NewCaches
   /\ now' = now + 1
   /\ UNCHANGED client

Next ==
   \/ /\ now < MaxTime
      /\ \E user_input \in AppTexts :
            \E env \in TurnEnvs(load_context_from_db(st, db), db, user_input) :
               Turn(user_input, env)
   \/ ClearSession

Spec == Init /\ [][Next]_vars

(***************************************************************************)
(* SpecQuota: a session is used up to its quota and beyond.  The user      *)
(* sends the same greeting, with the completion call failing, until one    *)
(* query is left; from there every message and every environment is        *)
(* followed.  Time is not followed.                                        *)
(***************************************************************************)
QuotaTexts == AppTexts \cup {text_hello}

QuietEnv == [triage_api |-> Raises, agent_api |-> Raises, faq_results |-> <<>>]

QueryCount == Get(db.sessions, st.session_id, [query_count |-> 0]).query_count

OneQueryLeft == QueryCount >= MAX_QUERIES_PER_SESSION - 1

QuotaTurn(user_input, env) ==
   /\ OneQueryLeft \/ (user_input = text_hello /\ env = QuietEnv)
   /\ Run(user_input, env)
   /\ UNCHANGED now

QuotaNext ==
   \/ \E user_input \in (IF OneQueryLeft THEN QuotaTexts ELSE {text_hello}) :
         \E env \in (IF OneQueryLeft
                     THEN TurnEnvs(load_context_from_db(st, db), db, user_input)
                     ELSE {QuietEnv}) :
            QuotaTurn(user_input, env)
   \/ ClearSession

SpecQuota == Init /\ [][QuotaNext]_vars

(***************************************************************************)
(* Properties of the turn pipeline (Spec, SpecQuota)                       *)
(***************************************************************************)
\* the turns of the current session that were processed: each appended one
\* user message to the chat history
ProcessedTurns ==
   Cardinality({i \in 1..Len(st.messages) : st.messages[i].role = "user"})

\* C6: a turn that starts with query_count >= MAX_QUERIES_PER_SESSION is
\* rejected before the triage agent is called; a turn that starts with one
\* query left is processed and uses it up; a session never processes more
\* than MAX_QUERIES_PER_SESSION turns.
C6_QuotaBoundary ==
   /\ ProcessedTurns <= MAX_QUERIES_PER_SESSION
   /\ last.op = "turn" =>
         /\ last.query_count >= MAX_QUERIES_PER_SESSION
               => ~last.processed /\ cache = NewCaches
         /\ last.query_count = MAX_QUERIES_PER_SESSION - 1
               => last.processed /\ QueryCount = MAX_QUERIES_PER_SESSION

\* C6 happens: a session that processed MAX_QUERIES_PER_SESSION turns had
\* its next turn rejected
C6_Witness ==
   /\ last.op = "turn" /\ ~last.processed
   /\ last.query_count = MAX_QUERIES_PER_SESSION
   /\ ProcessedTurns = MAX_QUERIES_PER_SESSION

\* the refund handler ran in the turn recorded in r and asked for the reason
\* of a verified transaction
TurnNeedsReason(r) ==
   /\ r.op = "turn" /\ r.processed
   /\ r.route_to = route_refund
   /\ Get(r.result.metadata, "awaiting_reason", FALSE)

\* the refund handler ran in the turn recorded in r and completed the refund
\* of the transaction that info names
TurnCompletes(r, info) ==
   /\ r.result.resolved
   /\ "refund_data" \in DOMAIN r.result.metadata
   /\ r.result.metadata.refund_data.invoice_no = info.invoice_no
   /\ r.result.metadata.refund_data.customer_id = info.customer_id

\* C9: the identifiers the refund handler extracted and verified in one turn
\* are carried to the handler in the next turn of the session, so that a
\* message holding only a reason completes the refund.
C9_IdentifiersCarriedAcrossTurns ==
   [][ ( /\ TurnNeedsReason(last)
         /\ last'.op = "turn" /\ last'.processed
         /\ last'.session_id = last.session_id
         /\ last'.user_input = text_because_broken
         /\ last'.route_to = route_refund )
       => /\ Get(last'.context, "extracted_info", None)
                = extract_transaction_info(last.user_input)
          /\ TurnCompletes(last', extract_transaction_info(last.user_input)) ]_vars

\* C10: at the end of every processed turn the session_context table holds,
\* under the turn's session id, the session context the turn produced.
C10_ContextStoredEachTurn ==
   (last.op = "turn" /\ last.processed)
      => /\ last.session_id \in DOMAIN db.session_context
         /\ db.session_context[last.session_id] =
               [customer_info |-> st.customer_info,
                current_context |-> st.current_context,
                awaiting_info |-> st.awaiting_info,
                required_fields |-> st.required_fields]

\* the tables hold nothing under session_id
HoldsNothing(database, session_id) ==
   /\ session_id \notin DOMAIN database.sessions
   /\ session_id \notin DOMAIN database.session_context
   /\ \A i \in 1..Len(database.conversation_logs) :
         database.conversation_logs[i].session_id # session_id
   /\ \A i \in 1..Len(database.refund_requests) :
         database.refund_requests[i].session_id # session_id

\* the session ids issued so far whose session was cleared
ClearedSessions ==
   {SessionIdPool[i] : i \in 1..db.issued} \ {st.session_id}

TurnReachesComplete(r) ==
   /\ r.op = "turn" /\ r.processed
   /\ r.route_to = route_refund
   /\ r.result.resolved
   /\ "refund_data" \in DOMAIN r.result.metadata

\* the refund_requests row of a refund-data record
RefundRow(session_id, refund_data) ==
   [session_id |-> session_id,
    customer_id |-> refund_data.customer_id,
    invoice_no |-> refund_data.invoice_no,
    stock_code |-> refund_data.stock_code,
    product_description |-> refund_data.product_description,
    quantity |-> refund_data.quantity,
    unit_price |-> refund_data.unit_price,
    refund_reason |-> refund_data.refund_reason]

\* C12: a turn in which the refund handler reaches COMPLETE adds exactly one
\* row to refund_requests, for the session and with the refund-data record
\* the handler produced.
C12_CompleteRecordsRefund ==
   [][ TurnReachesComplete(last')
       => db'.refund_requests =
             Append(db.refund_requests,
                    RefundRow(last'.session_id, last'.result.metadata.refund_data)) ]_vars

(***************************************************************************)
(* SpecCache: one agent's response cache under process_with_cache.  The    *)
(* agent is asked a new question each second until its cache is full (the  *)
(* completion returns an empty text for the second question); from there   *)
(* the oldest two questions and a new one are asked in any order, a second *)
(* or the time to live later, with the completion answering or returning   *)
(* an empty text.                                                          *)
(***************************************************************************)
MaxExtraCalls == 3

digit_chars == <<"0","1","2","3","4","5","6","7","8","9">>

RECURSIVE decimal(_)
decimal(n) ==
   IF n < 10 THEN <<digit_chars[n + 1]>>
   ELSE decimal(n \div 10) \o <<digit_chars[(n % 10) + 1]>>

Question(i) == <<"q","u","e","s","t","i","o","n"," ">> \o decimal(i)

reply_answer == <<"A","n","s","w","e","r",".">>

\* what the completion call may do
CacheAPI == {Replies(reply_answer), Replies(<<>>)}

\* the questions asked once the cache is full
CacheQuestions == {Question(1), Question(2), Question(MAX_CACHE_SIZE + 1)}

\* the calls made so far
CacheCalls == IF last.op = "cache" THEN last.calls ELSE 0

\* the calls answered from the cache so far
CacheReads == IF last.op = "cache" THEN last.reads ELSE 0

\* the keys the cache holds, in the order in which their entries were stored
StoredOrder == IF last.op = "cache" THEN last.order ELSE <<>>

Range(seq) == {seq[i] : i \in 1..Len(seq)}

\* process_with_cache(user_input, system_prompt) dt seconds after the last
\* call
CacheCall(user_input, api, dt) ==
   /\ \E p \in {process_with_cache(cache.triage, now + dt, client, user_input,
                                   triage_system_prompt, api)} :
         LET cache_key == generate_cache_key(triage_system_prompt, user_input)
             kept == SelectSeq(StoredOrder,
                               LAMBDA k : /\ k \in CacheKeys(p.cache)
                                          /\ p.called => k # cache_key)
         IN  /\ cache' = [cache EXCEPT !.triage = p.cache]
             /\ last' = [op |-> "cache", key |-> cache_key, called |-> p.called,
                         response |-> p.response,
                         calls |-> CacheCalls + 1,
                         reads |-> CacheReads + (IF p.called THEN 0 ELSE 1),
                         held |-> StoredOrder,
                         order |-> IF p.called THEN Append(kept, cache_key) ELSE kept,
                         was_held |-> cache_key \in CacheKeys(cache.triage),
                         age |-> IF cache_key \in CacheKeys(cache.triage)
                                 THEN now + dt
                                      - cache.triage[CacheIndex(cache.triage,
                                                                cache_key)].cached_time
                                 ELSE 0]
   /\ now' = now + dt
   /\ UNCHANGED <<client, st, db>>

\* the outcomes of the completion call to follow: one when the answer comes
\* from the cache
CacheOutcomes(user_input, dt) ==
   IF process_with_cache(cache.triage, now + dt, client, user_input,
                         triage_system_prompt, Raises).called
   THEN CacheAPI ELSE {Raises}

CacheNext ==
   IF CacheCalls < MAX_CACHE_SIZE
   THEN CacheCall(Question(CacheCalls + 1),
                  IF CacheCalls + 1 = 2 THEN Replies(<<>>) ELSE Replies(reply_answer), 1)
   ELSE /\ CacheCalls < MAX_CACHE_SIZE + MaxExtraCalls
        /\ \E user_input \in CacheQuestions, dt \in {1, CACHE_TTL} :
              \E api \in CacheOutcomes(user_input, dt) :
                 CacheCall(user_input, api, dt)

SpecCache == Init /\ [][CacheNext]_vars

(***************************************************************************)
(* Properties of the response cache (SpecCache)                            *)
(***************************************************************************)
\* the last call stored an entry under a key the cache did not hold, and
\* the cache held MAX_CACHE_SIZE entries
InsertedIntoFullCache ==
   /\ last.op = "cache" /\ last.called
   /\ last.key \notin Range(last.held)
   /\ Len(last.held) = MAX_CACHE_SIZE

\* C13: when an entry with a new key is stored in a cache that holds
\* MAX_CACHE_SIZE entries, exactly one entry is evicted, the one stored
\* earliest among those held, whether or not entries were read in between.
C13_EvictsEarliestStored ==
   InsertedIntoFullCache
      => /\ Range(last.held) \ CacheKeys(cache.triage) = {last.held[1]}
         /\ CacheKeys(cache.triage) \ Range(last.held) = {last.key}
         /\ Len(cache.triage) = MAX_CACHE_SIZE

\* C13 happens: after an entry was read from the cache, a call stored a new
\* key in the full cache and the entry stored earliest was evicted
C13_Witness ==
   /\ InsertedIntoFullCache
   /\ last.reads > 0
   /\ last.held[1] \notin CacheKeys(cache.triage)

\* C14: the response cache never holds more than MAX_CACHE_SIZE entries.
C14_CacheSizeBounded ==
   /\ Len(cache.triage) <= MAX_CACHE_SIZE
   /\ Cardinality(CacheKeys(cache.triage)) = Len(cache.triage)

\* C14 happens: the cache is full after an entry was stored in a full cache
C14_Witness ==
   /\ last.op = "cache" /\ last.called
   /\ Len(last.held) = MAX_CACHE_SIZE
   /\ Len(cache.triage) = MAX_CACHE_SIZE

(***************************************************************************)
(* SpecExtract: extract_transaction_info applied to messages made of an    *)
(* opening, an invoice token and a customer token, well-formed or with too *)
(* few or too many digits.                                                 *)
(***************************************************************************)
ExtractLeads ==
   { <<>>,
     <<"r","e","f","u","n","d"," ","f","o","r"," ">>,
     <<"#">>,
     <<"m","y"," ","o","r","d","e","r",":"," ">> }

InvoiceTokens ==
   { <<>>,
     <<"I","N","V","1","2">>,
     <<"I","N","V","1","0","0">>,
     <<"I","N","V","1","0","0","1">>,
     <<"I","N","V","1","2","3","4","5">>,
     <<"i","n","v","1","0","0","2">>,
     <<"I","N","V"," ","1","0","0","1">> }

CustomerTokens ==
   { <<>>,
     <<" ","C","U","S","T","1","2">>,
     <<" ","C","U","S","T","1","2","3">>,
     <<" ","C","U","S","T","1","2","3","4","5">>,
     <<" ","c","u","s","t","4","5","6">> }

ExtractTexts ==
   {lead \o invoice \o customer :
       lead \in ExtractLeads, invoice \in InvoiceTokens, customer \in CustomerTokens}

ExtractCall(text) ==
   /\ last' = [op |-> "extract", text |-> text,
               result |-> extract_transaction_info(text)]
   /\ UNCHANGED <<client, cache, now, st, db>>

ExtractNext == \E text \in ExtractTexts : ExtractCall(text)

SpecExtract == Init /\ [][ExtractNext]_vars

(***************************************************************************)
(* Properties of extract_transaction_info (SpecExtract)                    *)
(***************************************************************************)
\* id stands in the upper-cased text and no digit follows it there: the
\* text holds it with exactly its digits
StandsWithExactDigits(id, text) ==
   \E i \in 1..(Len(text) - Len(id) + 1) :
      /\ OccursAt(id, upper(text), i)
      /\ i + Len(id) <= Len(text) => upper(text)[i + Len(id)] \notin Digits

\* C15: an invoice id is returned only for INV followed by exactly 4 digits
\* and a customer id only for CUST followed by exactly 3 digits; a token
\* with too few or too many digits leaves the field absent, never a part of
\* the token.
C15_OnlyExactDigitTokens ==
   last.op = "extract"
      => /\ last.result.invoice_no # None
               => StandsWithExactDigits(last.result.invoice_no, last.text)
         /\ last.result.customer_id # None
               => StandsWithExactDigits(last.result.customer_id, last.text)

(***************************************************************************)
(* SpecValidation: the turns of Spec, with messages that fail              *)
(* validate_query_input among them: too short once trimmed, or longer than *)
(* MaxQueryLen characters.                                                 *)
(***************************************************************************)
Padding(n) == [i \in 1..n |-> "x"]

text_blank == <<" "," "," "," ">>

text_too_long_plain == Padding(MaxQueryLen + 1)

text_too_long_refund == <<"r","e","f","u","n","d"," ">> \o Padding(MaxQueryLen)

text_too_long_policy == <<"w","h","a","t"," ","p","o","l","i","c","y"," ">> \o Padding(MaxQueryLen)

ValidationTexts ==
   AppTexts \cup {text_blank, text_too_long_plain, text_too_long_refund,
                  text_too_long_policy}

ValidationNext ==
   \/ /\ now < MaxTime
      /\ \E user_input \in ValidationTexts :
            \E env \in TurnEnvs(load_context_from_db(st, db), db, user_input) :
               Turn(user_input, env)
   \/ ClearSession

SpecValidation == Init /\ [][ValidationNext]_vars

(***************************************************************************)
(* Properties of input validation in the turn pipeline (SpecValidation)    *)
(***************************************************************************)
\* the last step was a processed turn whose message fails input validation
InvalidTurn ==
   /\ last.op = "turn" /\ last.processed
   /\ ~validate_query_input(last.user_input).is_valid

\* C16: when the message fails input validation the response of the turn is
\* the too-short or the too-long message, the turn is unresolved, and
\* neither the refund nor the FAQ handler is invoked.
C16_InvalidInputNotRouted ==
   InvalidTurn
      => /\ last.response.content.msg = validate_query_input(last.user_input).error_msg
         /\ ~last.response.metadata.resolved
         /\ last.route_to = route_triage

(***************************************************************************)
(* SpecFaults: the turns of Spec while things go wrong.  Another process   *)
(* may take and release the lock of the database file between two script   *)
(* runs, and a message may hold a lone surrogate, which no call that       *)
(* encodes the message survives: the cache key of a completion call and    *)
(* the parameters of an SQL statement.                                     *)
(***************************************************************************)
text_surrogate_hello ==
   <<"h","e","l","l","o"," ">> \o <<lone_surrogate>>

text_surrogate_policy ==
   <<"w","h","a","t"," ","p","o","l","i","c","y"," ">> \o <<lone_surrogate>>

text_surrogate_refund ==
   text_refund_ids \o <<" ","b","e","c","a","u","s","e"," ","i","t"," ","b","r","o","k","e"," ">> \o <<lone_surrogate>>

FaultTexts ==
   { text_refund_ids, text_shipping_policy,
     text_surrogate_hello, text_surrogate_policy, text_surrogate_refund }

\* another process takes the lock of data/session_logs.db
LockDatabase ==
   /\ ~db.locked
   /\ db' = [db EXCEPT !.locked = TRUE]
   /\ UNCHANGED <<client, cache, now, st, last>>

\* the lock is released
UnlockDatabase ==
   /\ db.locked
   /\ db' = [db EXCEPT !.locked = FALSE]
   /\ UNCHANGED <<client, cache, now, st, last>>

FaultNext ==
   \/ /\ now < MaxTime
      /\ \E user_input \in FaultTexts :
            \E env \in TurnEnvs(load_context_from_db(st, db), db, user_input) :
               Turn(user_input, env)
   \/ ClearSession
   \/ LockDatabase
   \/ UnlockDatabase

SpecFaults == Init /\ [][FaultNext]_vars

(***************************************************************************)
(* Properties of the turn pipeline when things go wrong (SpecFaults)       *)
(***************************************************************************)
\* an exception was raised while the last turn was processed
RaisedInTurn ==
   /\ last.op = "turn" /\ last.processed
   /\ last.triage_raised \/ last.agent_raised \/ last.routing_raised

\* C17: when an exception is raised while a turn is processed, in the triage
\* agent, the refund handler, the FAQ handler or the routing code, the turn
\* returns a response with resolved = false and needs_followup = true.
C17_ExceptionGivesFollowup ==
   RaisedInTurn
      => /\ ~last.response.metadata.resolved
         /\ last.response.metadata.needs_followup

\* a write of the last turn failed: the store was locked when the turn ran
\* (the UPDATE of the activity counter and the INSERT of the conversation
\* log raise), or the message cannot be encoded (the INSERT raises)
WriteFailedInTurn ==
   /\ last.op = "turn" /\ last.processed
   /\ last.locked \/ ~encodable(last.user_input)

opening_sure == <<"S","u","r","e","!"," ">>

opening_not_sure == <<"I","'","m"," ","n","o","t"," ","s","u","r","e",","," ","b","u","t"," ">>

opening_contact_support == <<"P","l","e","a","s","e"," ","c","o","n","t","a","c","t"," ","s","u","p","p","o","r","t","."," ">>

body_no_terms == <<"w","e"," ","a","r","e"," ","h","a","p","p","y"," ","t","o"," ","h","e","l","p">>

body_one_term == <<"s","t","a","n","d","a","r","d"," ","s","h","i","p","p","i","n","g"," ","i","s"," ","f","r","e","e">>

body_three_terms == <<"o","u","r"," ","R","e","t","u","r","n"," ","P","o","l","i","c","y"," ","a","l","l","o","w","s"," ","3","0"," ","d","a","y","s">>

body_two_terms == <<"t","h","e"," ","w","a","r","r","a","n","t","y"," ","c","o","v","e","r","s"," ","e","v","e","r","y"," ","m","o","d","e","l">>

closing_long == <<" ","T","h","a","n","k"," ","y","o","u"," ","f","o","r"," ","a","s","k","i","n","g",","," ","a","n","d"," ","p","l","e","a","s","e"," ","l","e","t"," ","m","e"," ","k","n","o","w"," ","w","h","e","n","e","v","e","r"," ","y","o","u"," ","w","o","u","l","d"," ","l","i","k","e"," ","m","e"," ","t","o"," ","g","o"," ","o","v","e","r"," ","a","n","y"," ","o","f"," ","t","h","i","s"," ","o","n","c","e"," ","a","g","a","i","n",".">>

text_deliver_abroad == <<"d","o"," ","y","o","u"," ","d","e","l","i","v","e","r"," ","a","b","r","o","a","d">>

FaqOpenings == { <<>>, opening_sure, opening_not_sure, opening_contact_support }

FaqBodies == { body_no_terms, body_one_term, body_two_terms, body_three_terms }

FaqClosings == { <<".">>, <<".">> \o closing_long }

\* what the completion call may do for a FAQ request
FaqAPI ==
   {Raises} \cup
   {Replies(o \o b \o c) : o \in FaqOpenings, b \in FaqBodies, c \in FaqClosings}

FaqTexts == { text_shipping_policy, text_deliver_abroad }

FaqFound == { <<faq_shipping>>, <<faq_shipping, faq_returns>> }

\* FAQAgent.process(user_input, {}) of a new agent, search_faq returning
\* faq_results and the completion call doing `api`
FaqCall(user_input, faq_results, api) ==
   \E p \in {faq_process(NewCaches.faq, now, client, user_input, EmptyDict,
                         faq_results, api)} :
       /\ last' = [op |-> "faq", user_input |-> user_input,
                   faq_results |-> faq_results,
                   api_called |-> p.api_called,
                   api_raised |-> p.api_called /\ api.raises,
                   result |-> p.result]
       /\ cache' = [cache EXCEPT !.faq = p.cache]
       /\ UNCHANGED <<client, now, st, db>>

FaqNext ==
   \E user_input \in FaqTexts, faq_results \in FaqFound, api \in FaqAPI :
      FaqCall(user_input, faq_results, api)

SpecFaq == Init /\ [][FaqNext]_vars

(***************************************************************************)
(* Properties of the FAQ handler (SpecFaq)                                 *)
(***************************************************************************)
\* the last call returned an answer the completion capability generated
AIGenerated ==
   /\ last.op = "faq"
   /\ last.api_called /\ ~last.api_raised
   /\ last.result.metadata.source = "ai_enhanced"

\* the generated answer of the last call
AIAnswer == last.result.response.args[1]

Uncertain(answer) == any_in(uncertainty_phrases, lower(answer))

Substantial(answer) ==
   /\ Len(answer) > MinResolvedLen
   /\ count_in(resolution_indicators, lower(answer)) >= MinResolvedIndicators

\* C18: an AI-generated FAQ answer that contains an uncertainty phrase is
\* unresolved, also when it is longer than 100 characters and contains two
\* domain terms; an answer longer than 100 characters with two domain terms
\* and no uncertainty phrase is resolved.
C18_UncertaintyForcesUnresolved ==
   AIGenerated
      => /\ Uncertain(AIAnswer) => ~last.result.resolved
         /\ Substantial(AIAnswer) /\ ~Uncertain(AIAnswer) => last.result.resolved

(***************************************************************************)
(* Frame of a rejected turn (SpecQuota)                                    *)
(***************************************************************************)
\* C20: a turn rejected by the quota check leaves the state unchanged: the
\* session state (the chat message history among it) and the store
\* (query_count, the conversation log, the refund log and the session
\* context) are the same after the rejected turn as before it.
C20_RejectedTurnChangesNothing ==
   [][ (last'.op = "turn" /\ ~last'.processed) => (st' = st /\ db' = db) ]_vars

\* a turn was rejected in a session that has a chat history and logged
\* conversations
C20_Witness ==
   /\ last.op = "turn" /\ ~last.processed
   /\ last.session_id = st.session_id
   /\ QueryCount = last.query_count
   /\ st.messages # <<>>
   /\ \E i \in 1..Len(db.conversation_logs) :
         db.conversation_logs[i].session_id = st.session_id

(***************************************************************************)
(* The AI category is authoritative outside the refund override            *)
(* (SpecTriage)                                                            *)
(***************************************************************************)
\* the four categories of the classification
FourCategories == {cat_refund, cat_faq, cat_partnership, cat_other}

\* the AI reply of the last call named one of the four valid categories
AICategoryValid ==
   /\ TriageRan /\ last.asked_ai
   /\ "category" \in DOMAIN last.parsed_result
   /\ last.parsed_result.category \in FourCategories

\* the override condition of _validate_classification
OverrideHolds ==
   /\ last.rule_based_category = cat_refund
   /\ last.parsed_result.category # cat_refund
   /\ HasOverrideKeyword

\* C21: when the AI category is one of the four valid categories and the
\* override condition does not hold (the rule category is not refund, or the
\* AI category is refund, or the text holds no override keyword), the
\* reconciled category is the AI category, also when the rule category is
\* faq or partnership and disagrees with it.
C21_AICategoryAuthoritative ==
   (AICategoryValid /\ ~OverrideHolds)
      => last.final_category = last.parsed_result.category

\* C21 happens: the rule category was faq or partnership, the AI reply named
\* another valid category, and the AI category was taken
C21_Witness ==
   /\ AICategoryValid /\ ~OverrideHolds
   /\ last.rule_based_category \in {cat_faq, cat_partnership}
   /\ last.parsed_result.category # last.rule_based_category
   /\ last.final_category = last.parsed_result.category

(***************************************************************************)
(* How the refund handler resolves the identifiers (SpecRefund)            *)
(***************************************************************************)
\* the extracted_info of the carried context, empty when it has none
CarriedInfo == Get(last.context, "extracted_info", EmptyDict)

\* the identifier resolved on its own: the value of the current message when
\* it has one, otherwise the value of the carried context
ResolvedAlone(field) ==
   IF last.extracted_info[field] # None THEN last.extracted_info[field]
   ELSE Get(CarriedInfo, field, None)

\* NEED_IDENTIFIERS: the handler asked for identifiers
NeedIdentifiers == "missing_fields" \in DOMAIN last.result.metadata

\* C22: the refund handler resolves each identifier on its own, from the
\* current message when present and from the carried context's
\* extracted_info only for an identifier the message omits; it asks for
\* identifiers only when one is absent from both.
C22_IdentifiersResolvedIndependently ==
   RefundRan
      => /\ last.invoice_no = ResolvedAlone("invoice_no")
         /\ last.customer_id = ResolvedAlone("customer_id")
         /\ NeedIdentifiers
               <=> \/ ResolvedAlone("invoice_no") = None
                   \/ ResolvedAlone("customer_id") = None

\* the fields to ask for when invoice_no and customer_id are the resolved
\* identifiers
MissingOf(invoice_no, customer_id) ==
   (IF invoice_no = None THEN <<field_invoice>> ELSE <<>>)
   \o (IF customer_id = None THEN <<field_customer>> ELSE <<>>)

\* C23: when the refund handler asks for identifiers, the missing_fields it
\* reports are exactly the identifiers missing after the current message and
\* the carried context are combined: one supplied by the carried context is
\* not listed, one absent from both is listed.
C23_MissingFieldsAfterCombining ==
   (RefundRan /\ NeedIdentifiers)
      => last.result.metadata.missing_fields =
            MissingOf(ResolvedAlone("invoice_no"), ResolvedAlone("customer_id"))

\* the refund-data record made of a transaction row and a reason
RefundDataOf(row, reason) ==
   [customer_id |-> row.CustomerID, invoice_no |-> row.InvoiceNo,
    stock_code |-> row.StockCode, product_description |-> row.Description,
    quantity |-> row.Quantity, unit_price |-> row.UnitPrice,
    refund_reason |-> reason]

\* the rows of the transaction source with exactly the pair resolved in the
\* last call
RowsOfResolvedPair ==
   {i \in 1..Len(Transactions) :
      /\ Transactions[i].InvoiceNo = last.invoice_no
      /\ Transactions[i].CustomerID = last.customer_id}

\* C24: a refund-data record is emitted only if the transaction source holds
\* a row with exactly the pair of identifiers resolved in that call, and the
\* record's fields are copied from such a row; when both identifiers are
\* resolved and the lookup misses, the outcome is unresolved, has
\* transaction_found = false and carries no refund-data record.
C24_RefundDataOnlyForExactPair ==
   RefundRan
      => /\ EmitsRefundData
            => \E i \in RowsOfResolvedPair :
                  last.result.metadata.refund_data =
                     RefundDataOf(Transactions[i],
                                  last.result.metadata.refund_data.refund_reason)
         /\ ( /\ last.invoice_no # None /\ last.customer_id # None
              /\ RowsOfResolvedPair = {} )
            => /\ ~last.result.resolved
               /\ Get(last.result.metadata, "transaction_found", TRUE) = FALSE
               /\ ~EmitsRefundData

\* C24 happens: a record was emitted for a pair that the source holds
C24_Witness ==
   /\ RefundRan /\ EmitsRefundData
   /\ RowsOfResolvedPair # {}
   /\ last.result.metadata.refund_data.invoice_no = last.invoice_no
   /\ last.result.metadata.refund_data.customer_id = last.customer_id

\* the other case of C24: both identifiers resolved and no row with the pair
NotFoundReached ==
   /\ RefundRan
   /\ last.invoice_no # None /\ last.customer_id # None
   /\ RowsOfResolvedPair = {}

\* the reason the handler goes on with: the one extracted from the current
\* text, otherwise the one of the carried context
ChosenReason ==
   IF extract_refund_reason(last.user_input) # None
   THEN extract_refund_reason(last.user_input)
   ELSE Get(last.context, "refund_reason", None)

WithinReasonBounds(reason) ==
   /\ Len(strip(reason)) >= MinReasonLen
   /\ Len(reason) <= MaxReasonLen

\* C25: every refund-data record emitted has a refund_reason whose trimmed
\* length is at least 10 and whose length is at most 500, extracted from the
\* text or taken from the carried context; for a verified transaction a
\* reason failing either bound gives a re-prompt: resolved = false,
\* needs_more_info = true and no refund-data record.
C25_ReasonWithinBounds ==
   RefundRan
      => /\ EmitsRefundData
            => /\ last.result.metadata.refund_data.refund_reason = ChosenReason
               /\ WithinReasonBounds(ChosenReason)
         /\ ( /\ last.transaction # None
              /\ ChosenReason # None
              /\ ~WithinReasonBounds(ChosenReason) )
            => /\ ~last.result.resolved
               /\ last.result.needs_more_info
               /\ ~EmitsRefundData

\* C25 happens: a record was emitted with the reason of the carried context
C25_Witness ==
   /\ RefundRan /\ EmitsRefundData
   /\ extract_refund_reason(last.user_input) = None
   /\ last.result.metadata.refund_data.refund_reason = last.context.refund_reason
   /\ WithinReasonBounds(last.context.refund_reason)

\* the other case of C25: the reason of a verified transaction failed a bound
ReasonRejected ==
   /\ RefundRan
   /\ last.transaction # None
   /\ ChosenReason # None
   /\ ~WithinReasonBounds(ChosenReason)

(***************************************************************************)
(* The three cases of reason extraction (SpecRefund)                       *)
(***************************************************************************)
\* the indicator words that occur in the lower-cased text
OccurringIndicators(text) ==
   {i \in 1..Len(reason_indicators) : Contains(reason_indicators[i], lower(text))}

\* the trimmed text after the first occurrence of the indicator word
AfterFirstOccurrence(indicator, text) ==
   LET at == Find(indicator, lower(text))
   IN  strip(SubSeq(lower(text), at + Len(indicator), Len(text)))

\* the reason extracted from the text of the last call
ExtractedReason == extract_refund_reason(last.user_input)

\* C26: reason extraction has three exclusive cases: when an indicator word
\* occurs in the lower-cased text the reason is the trimmed text after the
\* first occurrence of that indicator, kept only if longer than 10
\* characters; the whole trimmed input is the reason only if no indicator
\* occurs and the trimmed input is longer than 20 characters; in every other
\* case, an indicator followed by 10 characters or fewer among them, no
\* reason is extracted.
C26_ThreeExclusiveCases ==
   RefundRan
      => IF OccurringIndicators(last.user_input) = {}
         THEN ExtractedReason =
                 IF Len(strip(last.user_input)) > MinWholeInputLen
                 THEN prefix(strip(last.user_input), MaxReasonLen)
                 ELSE None
         ELSE \/ ExtractedReason = None
              \/ \E i \in OccurringIndicators(last.user_input) :
                    /\ Len(AfterFirstOccurrence(reason_indicators[i], last.user_input))
                          > MinExtractedReasonLen
                    /\ ExtractedReason =
                          prefix(AfterFirstOccurrence(reason_indicators[i],
                                                      last.user_input),
                                 MaxReasonLen)

(***************************************************************************)
(* Expiry of cached responses (SpecCache)                                  *)
(***************************************************************************)
\* the entry the cache holds under the key of the last call
EntryOfLastKey == cache.triage[CacheIndex(cache.triage, last.key)]

\* C27: process_with_cache answers from the cache only while the entry's age
\* is strictly less than CACHE_TTL; the first lookup of an entry whose age
\* is CACHE_TTL or more removes it, calls the completion capability again
\* and stores the new response with a new insertion time.
C27_ExpiryAtTTL ==
   last.op = "cache"
      => /\ ~last.called
            => /\ last.was_held /\ last.age < CACHE_TTL
               /\ EntryOfLastKey.response = last.response
               /\ EntryOfLastKey.cached_time = now - last.age
         /\ (last.was_held /\ last.age >= CACHE_TTL)
            => /\ last.called
               /\ Cardinality({i \in 1..Len(cache.triage) :
                                  cache.triage[i].key = last.key}) = 1
               /\ EntryOfLastKey.response = last.response
               /\ EntryOfLastKey.cached_time = now

\* C27 happens: an entry was looked up exactly CACHE_TTL seconds after it
\* was stored, and the completion capability was called again
C27_Witness ==
   /\ last.op = "cache"
   /\ last.was_held /\ last.age = CACHE_TTL
   /\ last.called
   /\ EntryOfLastKey.cached_time = now

(***************************************************************************)
(* What the response cache holds after a failed completion call            *)
(* (SpecTriage)                                                            *)
(***************************************************************************)
\* the texts _call_openai_api returns in place of a completion
FallbackTexts == {technical_difficulties_text, api_key_error_text}

\* C29: the response cache holds only texts returned by a successful
\* completion call: the fallback text of a failed call is never stored, so a
\* request answered from the cache is never answered with it.
C29_FallbackNeverCached ==
   /\ \A i \in 1..Len(cache.triage) : cache.triage[i].response \notin FallbackTexts
   /\ (TriageRan /\ last.asked_ai /\ ~last.api_called)
         => last.ai_response \notin FallbackTexts

(***************************************************************************)
(* SpecNoClient: the application of Spec run without an API key: the       *)
(* agents have no completion client, triage classifies by rule alone.      *)
(***************************************************************************)
text_what_receipt == <<"w","h","a","t"," ","a","b","o","u","t"," ","m","y"," ","r","e","c","e","i","p","t">>

NoClientTexts ==
   { text_cancel_order, text_receipt, text_what_receipt, text_money_back,
     text_refund_ids, text_ids_only, text_shipping_policy, text_wholesale,
     text_hello, text_too_short }

NoClientInit == client = FALSE /\ Constructed

NoClientNext ==
   \/ /\ now < MaxTime
      /\ \E user_input \in NoClientTexts :
            \E env \in TurnEnvs(load_context_from_db(st, db), db, user_input) :
               Turn(user_input, env)
   \/ ClearSession

SpecNoClient == NoClientInit /\ [][NoClientNext]_vars

(***************************************************************************)
(* Routing without a completion client (SpecNoClient)                      *)
(***************************************************************************)
\* the last turn was processed by agents without a client
NoClientTurn == last.op = "turn" /\ last.processed /\ ~client

\* the route target the keyword strengths of the message give
RouteByStrengths ==
   IF RefundStronger THEN route_refund
   ELSE IF FaqStronger THEN route_faq
   ELSE route_triage

NumConcurrent == 3

ConcurrentTurns == 1..NumConcurrent

ConcurrentInit ==
   /\ client = TRUE
   /\ cache = NewCaches
   /\ now = 0
   /\ st = NewSessionState(SessionIdPool[1])
   /\ db = NewDatabase(SessionIdPool[1])
   /\ last = [op |-> "concurrent", pc |-> [t \in ConcurrentTurns |-> "idle"],
              passed |-> 0]

NoTurnInFlight == \A t \in ConcurrentTurns : last.pc[t] = "idle"

\* a turn processed while no other is in flight
SequentialTurn ==
   /\ NoTurnInFlight
   /\ ~OneQueryLeft
   /\ \E p \in {process_user_message(load_context_from_db(st, db), db, NewCaches,
                                     now, client, text_hello, QuietEnv)} :
         /\ st' = p.state
         /\ db' = p.database
         /\ cache' = p.caches
   /\ last' = [last EXCEPT !.passed = @ + 1]
   /\ UNCHANGED <<client, now>>

\* process_user_message of turn t: the quota check
CheckQuota(t) ==
   /\ OneQueryLeft
   /\ last.pc[t] = "idle"
   /\ last.passed < MAX_QUERIES_PER_SESSION + NumConcurrent
   /\ last' = IF is_session_valid(db, st.session_id)
              THEN [last EXCEPT !.pc[t] = "passed", !.passed = @ + 1]
              ELSE [last EXCEPT !.pc[t] = "rejected"]
   /\ UNCHANGED <<client, cache, now, st, db>>

\* process_user_message of turn t: the session limit message, and return
RejectTurn(t) ==
   /\ last.pc[t] = "rejected"
   /\ last' = [last EXCEPT !.pc[t] = "idle"]
   /\ UNCHANGED <<client, cache, now, st, db>>

\* process_user_message of turn t: the user message is added to the chat
\* and update_session_activity called
CountQuery(t) ==
   /\ last.pc[t] = "passed"
   /\ st' = [st EXCEPT !.messages =
                Append(@, [role |-> "user", content |-> text_hello])]
   /\ db' = update_session_activity(db, st.session_id)
   /\ last' = [last EXCEPT !.pc[t] = "counted"]
   /\ UNCHANGED <<client, cache, now>>

\* process_user_message of turn t: route_and_process and what follows it
FinishTurn(t) ==
   /\ last.pc[t] = "counted"
   /\ \E p \in {message_processed(
                   st, text_hello,
                   route_and_process(st, db, NewCaches, now, client, text_hello,
                                     QuietEnv))} :
         /\ st' = p.state
         /\ db' = p.database
         /\ cache' = p.caches
   /\ last' = [last EXCEPT !.pc[t] = "idle"]
   /\ UNCHANGED <<client, now>>

ConcurrentNext ==
   \/ SequentialTurn
   \/ \E t \in ConcurrentTurns : CheckQuota(t)
   \/ \E t \in ConcurrentTurns : RejectTurn(t)
   \/ \E t \in ConcurrentTurns : CountQuery(t)
   \/ \E t \in ConcurrentTurns : FinishTurn(t)

SpecConcurrent == ConcurrentInit /\ [][ConcurrentNext]_vars

(***************************************************************************)
(* The quota under concurrent turns (SpecConcurrent)                       *)
(***************************************************************************)
\* the turns that passed the quota check and have not yet counted their query
PassedNotCounted ==
   Cardinality({t \in ConcurrentTurns : last.pc[t] = "passed"})

\* C30 as stated: with the quota check and the query_count increment of
\* concurrent turns of a session interleaved in any order, no more than
\* MAX_QUERIES_PER_SESSION turns pass the quota check, and query_count is
\* the number of turns that passed (once each of them has counted its
\* query).
C30_QuotaHoldsUnderInterleaving ==
   /\ last.passed <= MAX_QUERIES_PER_SESSION
   /\ PassedNotCounted = 0 => QueryCount = last.passed

\* C30 amended: with n turns of a session in flight, at most
\* MAX_QUERIES_PER_SESSION + n - 1 turns pass the quota check (each turn in
\* flight may pass on the last query left); query_count is the number of
\* turns that passed less those that have not yet counted their query, so it
\* is the number that passed once each of them has.
C30_QuotaOvershootBounded ==
   /\ last.passed <= MAX_QUERIES_PER_SESSION + NumConcurrent - 1
   /\ QueryCount = last.passed - PassedNotCounted

\* C30 happens: every turn in flight passed the check on the last query
C30_Witness ==
   /\ last.passed = MAX_QUERIES_PER_SESSION + NumConcurrent - 1
   /\ PassedNotCounted = 0
   /\ QueryCount = last.passed

====
